---- MODULE Spec2Model ----
(***************************************************************************)
(* QVoiceTxt (src/QuantumCallInterface.jsx, second component, lines 850-   *)
(* 1465) and the Gemini gateway helper callGeminiApi (lines 152-202).      *)
(*                                                                         *)
(* Text is modelled as a sequence of fragments: a typed string is the      *)
(* sequence of its characters, a literal of the program is one fragment,   *)
(* and JavaScript's + on strings is \o.                                    *)
(***************************************************************************)
EXTENDS Integers, Sequences, FiniteSets, TLC

VARIABLES
    \* ---- session (QVoiceTxtApp state, lines 1198-1211)
    firebaseConfig, dbInstance, userId, isAuthReady, isSecure, qkdStatus,
    authPc, hsTimers,
    \* ---- router (handleUserMessage and its timers)
    currentMessage, error, isBotThinking, pendingAction, messages, store,
    tasks, nSubmits, inputSet, faults,
    \* ---- reminder scheduler
    reminders, nextDocId, now, firedReminderIds, polls, callbacks, emitted,
    appended,
    \* ---- gateway (one call of callGeminiApi)
    gwMaxRetries, gwSchema, gwAttempt, gwPc, gwOutcome, gwRequests, gwDelays,
    gwLog,
    \* ---- voice output (handleTtsGeneration of the first component)
    isTtsLoading, ttsPc, ttsPart, ttsWav,
    \* ---- a second running instance of the same user (another tab)
    peerFiredReminderIds, peerPolls, peerCallbacks, peerEmitted

sessionVars == <<firebaseConfig, dbInstance, userId, isAuthReady, isSecure,
                 qkdStatus, authPc, hsTimers>>
routerVars == <<currentMessage, error, isBotThinking, pendingAction, messages,
                tasks, nSubmits, inputSet>>
reminderVars == <<reminders, nextDocId, now, firedReminderIds, polls,
                  callbacks, emitted, appended>>
gatewayVars == <<gwMaxRetries, gwSchema, gwAttempt, gwPc, gwOutcome,
                 gwRequests, gwDelays, gwLog>>
audioVars == <<isTtsLoading, ttsPc, ttsPart, ttsWav>>
peerVars == <<peerFiredReminderIds, peerPolls, peerCallbacks, peerEmitted>>
vars == <<sessionVars, routerVars, store, faults, reminderVars, gatewayVars,
         audioVars, peerVars>>

(***************************************************************************)
(* Bounds of the model                                                     *)
(***************************************************************************)
MaxSubmits == 3
MaxFaults == 1
MaxReminders == 2
MaxPolls == 2
MaxClock == 2
MaxAttempts == 3

(***************************************************************************)
(* JavaScript string primitives used by the program                        *)
(***************************************************************************)
UpperChars == <<"A", "B", "C", "D", "E", "F", "G", "H", "I", "J", "K", "L", "M",
                "N", "O", "P", "Q", "R", "S", "T", "U", "V", "W", "X", "Y", "Z">>
LowerChars == <<"a", "b", "c", "d", "e", "f", "g", "h", "i", "j", "k", "l", "m",
                "n", "o", "p", "q", "r", "s", "t", "u", "v", "w", "x", "y", "z">>
DigitChars == <<"0", "1", "2", "3", "4", "5", "6", "7", "8", "9">>

LowerChar(c) ==
    IF \E i \in 1..Len(UpperChars) : UpperChars[i] = c
    THEN LowerChars[CHOOSE i \in 1..Len(UpperChars) : UpperChars[i] = c]
    ELSE c

toLowerCase(s) == [i \in 1..Len(s) |-> LowerChar(s[i])]

IsDigit(c) == \E i \in 1..Len(DigitChars) : DigitChars[i] = c

DigitVal(c) == (CHOOSE i \in 1..Len(DigitChars) : DigitChars[i] = c) - 1

RECURSIVE parseInt(_)
parseInt(s) ==
    IF Len(s) = 0 THEN 0
    ELSE parseInt(SubSeq(s, 1, Len(s) - 1)) * 10 + DigitVal(s[Len(s)])

startsWith(s, p) == Len(s) >= Len(p) /\ SubSeq(s, 1, Len(p)) = p

includes(s, p) ==
    \E i \in 1..(Len(s) - Len(p) + 1) : SubSeq(s, i, i + Len(p) - 1) = p

trim(s) ==
    LET keep == {i \in 1..Len(s) : s[i] # " "}
    IN  IF keep = {} THEN <<>>
        ELSE SubSeq(s, CHOOSE i \in keep : \A j \in keep : i <= j,
                       CHOOSE i \in keep : \A j \in keep : i >= j)

\* s.split(' ').slice(1).join(' '): what follows the first blank
afterFirstBlank(s) ==
    LET blanks == {i \in 1..Len(s) : s[i] = " "}
    IN  IF blanks = {} THEN <<>>
        ELSE SubSeq(s, (CHOOSE i \in blanks : \A j \in blanks : i <= j) + 1, Len(s))

\* s.split(' ')[1]: the second blank-separated field (undefined -> empty)
secondField(s) ==
    LET rest == afterFirstBlank(s)
        blanks == {i \in 1..Len(rest) : rest[i] = " "}
    IN  IF blanks = {} THEN rest
        ELSE SubSeq(rest, 1, (CHOOSE i \in blanks : \A j \in blanks : i <= j) - 1)

RECURSIVE join(_, _)
join(list, sep) ==
    IF Len(list) = 0 THEN <<>>
    ELSE IF Len(list) = 1 THEN list[1]
    ELSE list[1] \o sep \o join(Tail(list), sep)

(***************************************************************************)
(* Configuration: defaultNexusConfig                                       *)
(***************************************************************************)
botUserId == <<"Agent Q Core">>

tokenDictionary == <<
    <<"H", "e", "l", "l", "o", ".">>,
    <<"H", "o", "w", " ", "a", "r", "e", " ", "y", "o", "u", "?">>,
    <<"I", "'", "m", " ", "f", "i", "n", "e", ",", " ", "t", "h", "a", "n", "k", "s", ".">>,
    <<"W", "h", "a", "t", " ", "a", "r", "e", " ", "y", "o", "u", " ", "w", "o", "r", "k", "i", "n", "g", " ", "o", "n", "?">>,
    <<"I", " ", "n", "e", "e", "d", " ", "h", "e", "l", "p", ".">>,
    <<"Y", "e", "s", ".">>,
    <<"N", "o", ".">>,
    <<"T", "h", "a", "t", " ", "i", "s", " ", "c", "o", "r", "r", "e", "c", "t", ".">>,
    <<"I", " ", "a", "g", "r", "e", "e", ".">>,
    <<"P", "l", "e", "a", "s", "e", " ", "w", "a", "i", "t", " ", "a", " ", "m", "o", "m", "e", "n", "t", ".">>,
    <<"/", "a", "s", "k">>,
    <<"/", "s", "u", "m", "m", "a", "r", "y">>,
    <<"/", "o", "p", "t", "i", "m", "i", "z", "e">> >>

(***************************************************************************)
(* TokenLibrary: indices are the program's 0-based positions; null is the  *)
(* value Null                                                              *)
(***************************************************************************)
Null == -1

findIndexPrefix(phrase, dictionary) ==
    LET hits == {i \in 1..Len(dictionary) :
                    startsWith(toLowerCase(dictionary[i]), toLowerCase(phrase))}
    IN  IF hits = {} THEN -1
        ELSE (CHOOSE i \in hits : \A j \in hits : i <= j) - 1

\* dictionary.findIndex(p => p.toLowerCase() === phrase.toLowerCase())
findIndex(phrase, dictionary) ==
    LET hits == {i \in 1..Len(dictionary) :
                    toLowerCase(dictionary[i]) = toLowerCase(phrase)}
    IN  IF hits = {} THEN -1
        ELSE (CHOOSE i \in hits : \A j \in hits : i <= j) - 1

lookupToken(phrase, dictionary) ==
    LET index == findIndex(phrase, dictionary)
    IN  IF index # -1 THEN index ELSE Null

lookupPhraseOneBased(index, dictionary) ==
    IF index \in 1..Len(dictionary) THEN dictionary[index] ELSE <<>>

\* null is modelled as the empty text (both are falsy at the one call site)
lookupPhrase(index, dictionary) ==
    IF index \in 0..(Len(dictionary) - 1) THEN dictionary[index + 1] ELSE <<>>

(***************************************************************************)
(* askAgentQ (lines 943-1095).  The result is the set of outcomes the call *)
(* can have: res is the value returned, add the reminder documents the     *)
(* call added to the reminder collection (none or one).  What the remote   *)
(* services answer is the environment's choice.                            *)
(***************************************************************************)
UpperChar(c) ==
    IF \E i \in 1..Len(LowerChars) : LowerChars[i] = c
    THEN UpperChars[CHOOSE i \in 1..Len(LowerChars) : LowerChars[i] = c]
    ELSE c

toUpperCase(s) == [i \in 1..Len(s) |-> UpperChar(s[i])]

TextRes(c) == [type |-> "text", content |-> c]

ActionRes(a, d) == [type |-> "action", content |-> [action |-> a, details |-> d]]

IntentRes(a, arg) == [type |-> "intent", content |-> [action |-> a, argument |-> arg]]

Outcome(r) == [res |-> r, add |-> <<>>]

\* userQuery.match(/remindme (\d+)([mh]) "(.+)"/i): <<>> when there is no
\* match, else <<[value, unit, msg]>> of the leftmost match
remindMatch(q) ==
    LET L == toLowerCase(q)
        lit == <<"r", "e", "m", "i", "n", "d", "m", "e", " ">>
        \* last digit of the maximal digit run starting at j (j - 1: no digit)
        runEnd(j) == CHOOSE k \in (j - 1)..Len(q) :
                        /\ \A x \in j..k : IsDigit(q[x])
                        /\ (k = Len(q) \/ ~IsDigit(q[k + 1]))
        quoteEnds(k) == {e \in (k + 5)..Len(q) : q[e] = "\""}
        ok(i) == /\ i + Len(lit) - 1 <= Len(q)
                 /\ SubSeq(L, i, i + Len(lit) - 1) = lit
                 /\ LET j == i + Len(lit)
                        k == runEnd(j)
                    IN  /\ k >= j
                        /\ k + 3 <= Len(q)
                        /\ L[k + 1] \in {"m", "h"}
                        /\ q[k + 2] = " "
                        /\ q[k + 3] = "\""
                        /\ quoteEnds(k) # {}
        starts == {i \in 1..Len(q) : ok(i)}
    IN  IF starts = {} THEN <<>>
        ELSE LET i == CHOOSE a \in starts : \A b \in starts : a <= b
                 j == i + Len(lit)
                 k == runEnd(j)
                 e == CHOOSE a \in quoteEnds(k) : \A b \in quoteEnds(k) : a >= b
             IN  <<[value |-> SubSeq(q, j, k),
                    unit |-> <<q[k + 1]>>,
                    msg |-> SubSeq(q, k + 4, e - 1)]>>

\* userId[userId.length - 1] % 2 === 1
lastCharOdd(uid) ==
    /\ Len(uid) > 0
    /\ IsDigit(uid[Len(uid)])
    /\ DigitVal(uid[Len(uid)]) % 2 = 1

weatherReply(userQuery) ==
    LET loc == afterFirstBlank(trim(userQuery))
        location == IF loc # <<>> THEN loc ELSE <<"Boston">>
    IN  { Outcome(TextRes(<<"Agent Q: Weather for ">> \o location
                          \o <<": ", "<temperature>", "C, Windspeed ",
                               "<windspeed>", "km/h.">>)),
          Outcome(TextRes(<<"Agent Q: Weather unavailable for ">> \o location
                          \o <<".">>)),
          Outcome(TextRes(<<"Agent Q: Unable to get live weather for ">>
                          \o location \o <<". (", "<e.message>", ")">>)) }

cryptoReply(userQuery) ==
    LET f == toLowerCase(secondField(trim(userQuery)))
        token == IF f # <<>> THEN f ELSE <<"bitcoin">>
    IN  { Outcome(TextRes(<<"Agent Q: The current price of ">>
                          \o toUpperCase(token) \o <<" is $", "<price>">>)),
          Outcome(TextRes(<<"Agent Q: Token \"">> \o token \o <<"\" not found.">>)),
          Outcome(TextRes(<<"Agent Q: Crypto price unavailable.">>)) }

remindReplyNoValidation(userQuery, db, uid, t) ==
    { [res |-> TextRes(<<"Agent Q: I'll remind you.">>),
       add |-> <<[remindAt |-> t, message |-> userQuery]>>] }

remindReply(userQuery, db, uid, t) ==
    LET timeMatch == remindMatch(userQuery)
    IN  IF timeMatch # <<>> /\ db /\ uid # <<>>
        THEN LET value == timeMatch[1].value
                 unit == timeMatch[1].unit
                 msg == timeMatch[1].msg
                 delayMs == IF unit = <<"m">> THEN parseInt(value) * 60000
                            ELSE parseInt(value) * 3600000
                 when == t + delayMs
             IN  { [res |-> TextRes(<<"Agent Q: I'll remind you in ">> \o value
                                    \o unit \o <<": \"">> \o msg \o <<"\".">>),
                    add |-> <<[remindAt |-> when, message |-> msg]>>],
                   Outcome(TextRes(<<"Agent Q: Error setting reminder.">>)) }
        ELSE { Outcome(TextRes(<<"Agent Q: Usage: /remindme 10m \"your message\"">>)) }

summaryReply(conversationHistory) ==
    LET summary == IF Len(conversationHistory) > 0
                   THEN join([i \in 1..Len(conversationHistory) |->
                                 conversationHistory[i].sender \o <<": ">>
                                 \o conversationHistory[i].text], <<"\n">>)
                   ELSE <<"No conversation history.">>
    IN  TextRes(<<"Agent Q: Here is a summary of recent conversation:\n">> \o summary)

followupReplyPrefix(lowerQuery) ==
    IF startsWith(lowerQuery, <<"y">>)
    THEN ActionRes("ARCHIVE_SAVE", <<"Archive saved.">>)
    ELSE IF startsWith(lowerQuery, <<"n">>)
    THEN TextRes(<<"Agent Q: Archive not saved.">>)
    ELSE TextRes(<<"Agent Q: Please respond \"yes\" or \"no\".">>)

followupReply(lowerQuery) ==
    IF lowerQuery = <<"y", "e", "s">> \/ lowerQuery = <<"y">>
    THEN ActionRes("ARCHIVE_SAVE", <<"Archive saved.">>)
    ELSE IF lowerQuery = <<"n", "o">> \/ lowerQuery = <<"n">>
    THEN TextRes(<<"Agent Q: Archive not saved.">>)
    ELSE TextRes(<<"Agent Q: Please respond \"yes\" or \"no\".">>)

chatReply(userQuery, lowerQuery) ==
    IF includes(lowerQuery, <<"h", "e", "l", "l", "o">>)
       \/ includes(lowerQuery, <<"h", "i">>)
    THEN TextRes(<<"Agent Q: Hello! How can I assist you in the Quantum Channel?">>)
    ELSE IF includes(lowerQuery, <<"t", "o", "k", "e", "n", "l", "i", "s", "t">>)
    THEN TextRes(<<"Agent Q: Tokens available: ">> \o join(tokenDictionary, <<", ">>))
    ELSE TextRes(<<"Agent Q: (Simulated) I received: ">> \o userQuery)

askAgentQ(userQuery, requestType, conversationHistory, db, uid, t) ==
    LET lowerQuery == toLowerCase(userQuery)
        isCmd == requestType = "command"
    IN  IF isCmd /\ startsWith(lowerQuery, <<"/", "w", "e", "a", "t", "h", "e", "r">>)
        THEN weatherReply(userQuery)
        ELSE IF isCmd /\ startsWith(lowerQuery, <<"/", "c", "r", "y", "p", "t", "o">>)
        THEN cryptoReply(userQuery)
        ELSE IF isCmd /\ startsWith(lowerQuery, <<"/", "r", "e", "m", "i", "n", "d", "m", "e">>)
        THEN remindReply(userQuery, db, uid, t)
        ELSE IF isCmd /\ startsWith(lowerQuery, <<"/", "a", "r", "c", "h", "i", "v", "e">>)
        THEN { Outcome(ActionRes("ARCHIVE_CONFIRM",
                  <<"Would you like to save the current chat archive? (yes/no)">>)) }
        ELSE IF isCmd /\ trim(lowerQuery) = <<"/", "a", "d", "m", "i", "n">>
        THEN IF lastCharOdd(uid)
             THEN { Outcome(TextRes(<<"Agent Q: Welcome, admin! Here is your secret: 42.">>)) }
             ELSE { Outcome(TextRes(<<"Agent Q: You are not an admin. Access denied.">>)) }
        ELSE IF isCmd /\ startsWith(lowerQuery, <<"/", "s", "u", "m", "m", "a", "r", "y">>)
        THEN { Outcome(summaryReply(conversationHistory)) }
        ELSE IF isCmd /\ lowerQuery = <<"/", "h", "e", "l", "p">>
        THEN { Outcome(TextRes(<<"Agent Q Help: ...">>)) }
        ELSE IF isCmd /\ lowerQuery = <<"/", "t", "o", "k", "e", "n", "l", "i", "s", "t">>
        THEN { Outcome(TextRes(<<"Agent Q Tokens: ">> \o join(tokenDictionary, <<", ">>))) }
        ELSE IF requestType = "intent" /\ includes(lowerQuery, <<"a", "r", "c", "h", "i", "v", "e">>)
        THEN { Outcome(IntentRes("ARCHIVE_ACCESS", <<>>)) }
        ELSE IF requestType = "intent" /\ includes(lowerQuery, <<"w", "e", "a", "t", "h", "e", "r">>)
        THEN { Outcome(TextRes(<<"Agent Q: (Intent) Simulated weather is mild and pleasant.">>)) }
        ELSE IF requestType = "followup"
        THEN { Outcome(followupReply(lowerQuery)) }
        ELSE IF requestType = "chat"
        THEN { Outcome(chatReply(userQuery, lowerQuery)) }
        ELSE { Outcome(TextRes(<<"Agent Q: I am unsure how to handle your request.">>)) }

(***************************************************************************)
(* Values of the component state                                           *)
(***************************************************************************)
NoUser == <<>>

NoError == "null"

NullAction == [type |-> "null"]

Uids == {<<"u", "1">>}

IdleTask == [pc |-> "idle"]

DoneTask == [pc |-> "done"]

\* What the user types in the router specification (before trim)
RouterInputs == {
    <<"/", "a", "r", "c", "h", "i", "v", "e">>,
    <<" ", "y", "e", "s">>,
    <<"n", "o">>,
    <<"Y", "e", "s", ".">>,
    <<"m", "y", " ", "A", "r", "c", "h", "i", "v", "e">> }

(***************************************************************************)
(* Durable message store: saveMessage (lines 1313-1331) and the snapshot   *)
(* listener (lines 1278-1303)                                              *)
(***************************************************************************)
messageToSaveBoth(content, senderId, isTokenized) ==
    [tokenIndex |-> content, text |-> content, isTokenized |-> isTokenized,
     userId |-> senderId]

\* lines 1315-1321 (timestamp and sessionChoice are left out)
messageToSave(content, senderId, isTokenized) ==
    IF isTokenized
    THEN [tokenIndex |-> content, isTokenized |-> isTokenized, userId |-> senderId]
    ELSE [text |-> content, isTokenized |-> isTokenized, userId |-> senderId]

\* The outcome of one saveMessage call: ok is the environment's answer to
\* addDoc.  saved is the value returned, failed whether setError was called.
saveMessage(content, senderId, isTokenized, ok) ==
    IF ~dbInstance \/ senderId = NoUser
    THEN [store |-> store, saved |-> FALSE, failed |-> FALSE]
    ELSE IF ok
    THEN [store |-> Append(store, messageToSave(content, senderId, isTokenized)),
          saved |-> TRUE, failed |-> FALSE]
    ELSE [store |-> store, saved |-> FALSE, failed |-> TRUE]

errorAfterSave(r, e) == IF r.failed THEN "Failed to save message." ELSE e

decodeDocNoSentinel(data) ==
    LET text0 == IF "text" \in DOMAIN data THEN data.text ELSE <<>>
        text == IF data.isTokenized /\ "tokenIndex" \in DOMAIN data
                THEN lookupPhrase(data.tokenIndex, tokenDictionary)
                ELSE text0
    IN  [userId |-> data.userId, text |-> text, isTokenized |-> data.isTokenized]

decodeDoc(data) ==
    LET text0 == IF "text" \in DOMAIN data THEN data.text ELSE <<>>
        isTokenized == data.isTokenized
        text == IF isTokenized /\ "tokenIndex" \in DOMAIN data
                THEN LET ph == lookupPhrase(data.tokenIndex, tokenDictionary)
                     IN  IF ph # <<>> THEN ph
                         ELSE <<"[TOKEN_ERROR: Unknown Index ", ToString(data.tokenIndex), "]">>
                ELSE text0
    IN  [userId |-> data.userId, text |-> text, isTokenized |-> isTokenized]

decodeSnapshot(docs) == [i \in 1..Len(docs) |-> decodeDoc(docs[i])]

getFormattedHistory(currentMessages, currentUserId, maxTurns) ==
    LET keep(msg) == ~msg.isTokenized /\ msg.text # <<>>
        relevant == SelectSeq(currentMessages, keep)
        from == IF Len(relevant) > maxTurns THEN Len(relevant) - maxTurns + 1 ELSE 1
        last == SubSeq(relevant, from, Len(relevant))
    IN  [i \in 1..Len(last) |->
            [sender |-> IF last[i].userId = currentUserId
                        THEN <<"user">> ELSE <<"Agent Q">>,
             text |-> last[i].text]]

HistoryTurns == 10

\* The answers addDoc can give: failures are bounded by MaxFaults
addDocAnswers == IF faults < MaxFaults THEN {TRUE, FALSE} ELSE {TRUE}

\* One awaited saveMessage call and what it leaves behind: the new document,
\* the listener's delivery of the new snapshot (the feed delivers the full
\* ordered snapshot on every change), and the error banner
persist(content, senderId, isTokenized) ==
    \E ok \in addDocAnswers :
        LET r == saveMessage(content, senderId, isTokenized, ok)
        IN  /\ store' = r.store
            /\ messages' = IF r.saved THEN decodeSnapshot(r.store) ELSE messages
            /\ error' = errorAfterSave(r, error)
            /\ faults' = IF r.failed THEN faults + 1 ELSE faults

(***************************************************************************)
(* Session: mount effect, auth listener, handshake effect                  *)
(***************************************************************************)
InitSession ==
    /\ firebaseConfig \in BOOLEAN
    /\ dbInstance = FALSE
    /\ userId = NoUser
    /\ isAuthReady = FALSE
    /\ isSecure = FALSE
    /\ qkdStatus = "Initializing..."
    /\ authPc = "mount"
    /\ hsTimers = <<>>

\* useEffect of lines 1242-1260, up to the subscription
MountEffect ==
    /\ authPc = "mount"
    /\ IF firebaseConfig
       THEN dbInstance' = TRUE /\ authPc' = "listening"
       ELSE dbInstance' = dbInstance /\ authPc' = "off"
    /\ UNCHANGED <<firebaseConfig, userId, isAuthReady, isSecure, qkdStatus,
                   hsTimers>>
    /\ UNCHANGED <<routerVars, store, faults, reminderVars, gatewayVars, audioVars, peerVars>>

\* onAuthStateChanged callback, first call: a restored user, or none (then
\* authenticate() is started)
AuthStateChanged ==
    /\ authPc = "listening"
    /\ \/ \E uid \in Uids : userId' = uid /\ authPc' = "signedIn"
       \/ userId' = userId /\ authPc' = "signingIn"
    /\ isAuthReady' = TRUE
    /\ UNCHANGED <<firebaseConfig, dbInstance, isSecure, qkdStatus,
                   hsTimers>>
    /\ UNCHANGED <<routerVars, store, faults, reminderVars, gatewayVars, audioVars, peerVars>>

\* authenticate() succeeded: the listener is called again, with the user
SignInOk ==
    /\ authPc = "signingIn"
    /\ \E uid \in Uids : userId' = uid
    /\ authPc' = "signedIn"
    /\ isAuthReady' = TRUE
    /\ UNCHANGED <<firebaseConfig, dbInstance, isSecure, qkdStatus,
                   hsTimers>>
    /\ UNCHANGED <<routerVars, store, faults, reminderVars, gatewayVars, audioVars, peerVars>>

\* authenticate() threw
SignInFailed ==
    /\ authPc = "signingIn"
    /\ authPc' = "failed"
    /\ error' = "Failed to authenticate user."
    /\ UNCHANGED <<firebaseConfig, dbInstance, userId, isAuthReady, isSecure,
                   qkdStatus, hsTimers>>
    /\ UNCHANGED <<currentMessage, isBotThinking, pendingAction, messages,
                   tasks, nSubmits, inputSet>>
    /\ UNCHANGED <<store, faults, reminderVars, gatewayVars, audioVars, peerVars>>

handshakeSteps == << "Initiating Call Protocol...", "Secure channel established." >>

\* useEffect of lines 1262-1276: runs once, when isAuthReady has become true
HandshakeEffect ==
    /\ isAuthReady
    /\ hsTimers = <<>>
    /\ ~isSecure
    /\ hsTimers' = [i \in 1..Len(handshakeSteps) |-> i]
    /\ UNCHANGED <<firebaseConfig, dbInstance, userId, isAuthReady, isSecure,
                   qkdStatus, authPc>>
    /\ UNCHANGED <<routerVars, store, faults, reminderVars, gatewayVars, audioVars, peerVars>>

HandshakeStepSecureAtOnce ==
    /\ hsTimers # <<>>
    /\ qkdStatus' = handshakeSteps[Head(hsTimers)]
    /\ isSecure' = TRUE
    /\ hsTimers' = Tail(hsTimers)
    /\ UNCHANGED <<firebaseConfig, dbInstance, userId, isAuthReady,
                   authPc>>
    /\ UNCHANGED <<routerVars, store, faults, reminderVars, gatewayVars, audioVars, peerVars>>

\* one setTimeout callback of the handshake (they fire in order of delay)
HandshakeStep ==
    /\ hsTimers # <<>>
    /\ LET index == Head(hsTimers)
       IN  /\ qkdStatus' = handshakeSteps[index]
           /\ isSecure' = IF index = Len(handshakeSteps) THEN TRUE ELSE isSecure
    /\ hsTimers' = Tail(hsTimers)
    /\ UNCHANGED <<firebaseConfig, dbInstance, userId, isAuthReady,
                   authPc>>
    /\ UNCHANGED <<routerVars, store, faults, reminderVars, gatewayVars, audioVars, peerVars>>

(***************************************************************************)
(* Router: the input controls (MessageInput, lines 1150-1195, rendered by  *)
(* lines 1412-1447) and handleUserMessage (lines 1334-1410)                *)
(***************************************************************************)
InitRouter ==
    /\ currentMessage = <<>>
    /\ error = NoError
    /\ isBotThinking = FALSE
    /\ pendingAction = NullAction
    /\ messages = <<>>
    /\ store = <<>>
    /\ tasks = [n \in 1..MaxSubmits |-> IdleTask]
    /\ nSubmits = 0
    /\ faults = 0

isInputDisabled == ~isAuthReady \/ ~isSecure \/ isBotThinking

\* MessageInput is mounted only inside {isAuthReady && isSecure && ...}
inputRendered == isAuthReady /\ isSecure

inputEnabledNoPhase == ~isBotThinking

\* the textarea and the send button exist and are not disabled
inputEnabled == inputRendered /\ ~isInputDisabled

canType == inputEnabled

canSubmit == inputEnabled /\ trim(currentMessage) # <<>>

awaitingConfirmation ==
    /\ pendingAction.type # "null"
    /\ pendingAction.type = "action"
    /\ pendingAction.content.action = "ARCHIVE_CONFIRM"

classifyIntentFirst(userMessage) ==
    IF includes(toLowerCase(userMessage), <<"a", "r", "c", "h", "i", "v", "e">>)
       \/ includes(toLowerCase(userMessage), <<"w", "e", "a", "t", "h", "e", "r">>)
    THEN "intent"
    ELSE IF startsWith(userMessage, <<"/">>) THEN "command"
    ELSE "chat"

classify(userMessage) ==
    IF startsWith(userMessage, <<"/">>) THEN "command"
    ELSE IF includes(toLowerCase(userMessage), <<"a", "r", "c", "h", "i", "v", "e">>)
            \/ includes(toLowerCase(userMessage), <<"w", "e", "a", "t", "h", "e", "r">>)
    THEN "intent"
    ELSE "chat"

\* textarea onChange
Type ==
    /\ canType
    /\ \E s \in inputSet : s # currentMessage /\ currentMessage' = s
    /\ UNCHANGED <<error, isBotThinking, pendingAction, messages, tasks,
                   nSubmits, inputSet>>
    /\ UNCHANGED <<sessionVars, store, faults, reminderVars, gatewayVars, audioVars, peerVars>>

\* handleUserMessage up to its first await or its return; n names the
\* continuation it leaves behind
handleUserMessage(n) ==
    LET userMessage == trim(currentMessage)
    IN  IF userMessage = <<>> \/ userId = NoUser
        THEN UNCHANGED <<currentMessage, error, isBotThinking, tasks>>
        ELSE /\ currentMessage' = <<>>
             /\ error' = NoError
             /\ LET tokenIndex == lookupToken(toLowerCase(userMessage), tokenDictionary)
                IN  IF tokenIndex # Null
                    THEN /\ tasks' = [tasks EXCEPT ![n] =
                                 [pc |-> "tokenSave", tokenIndex |-> tokenIndex,
                                  userMessage |-> userMessage,
                                  awaiting |-> awaitingConfirmation]]
                         /\ UNCHANGED isBotThinking
                    ELSE IF awaitingConfirmation
                    THEN /\ isBotThinking' = TRUE
                         /\ tasks' = [tasks EXCEPT ![n] =
                                 [pc |-> "fuTimer", userMessage |-> userMessage]]
                    ELSE /\ tasks' = [tasks EXCEPT ![n] =
                                 [pc |-> "userSave", userMessage |-> userMessage,
                                  userRequestType |-> classify(userMessage),
                                  history |-> getFormattedHistory(messages, userId,
                                                                  HistoryTurns)]]
                         /\ UNCHANGED isBotThinking

\* Enter in the textarea or a click on the send button
UserSubmit ==
    /\ nSubmits < MaxSubmits
    /\ canSubmit
    /\ nSubmits' = nSubmits + 1
    /\ handleUserMessage(nSubmits + 1)
    /\ UNCHANGED <<pendingAction, messages, inputSet>>
    /\ UNCHANGED <<sessionVars, store, faults, reminderVars, gatewayVars, audioVars, peerVars>>

\* A submit gesture while the controls are absent or disabled: no handler runs
RejectedSubmit ==
    /\ nSubmits < MaxSubmits
    /\ ~canSubmit
    /\ nSubmits' = nSubmits + 1
    /\ UNCHANGED <<currentMessage, error, isBotThinking, pendingAction, messages,
                   tasks, inputSet>>
    /\ UNCHANGED <<sessionVars, store, faults, reminderVars, gatewayVars, audioVars, peerVars>>

TokenSaveDoneSetsBusy(n) ==
    /\ tasks[n].pc = "tokenSave"
    /\ persist(tasks[n].tokenIndex, userId, TRUE)
    /\ isBotThinking' = TRUE
    /\ tasks' = [tasks EXCEPT ![n] = DoneTask]
    /\ UNCHANGED <<currentMessage, pendingAction, nSubmits, inputSet>>
    /\ UNCHANGED <<sessionVars, reminderVars, gatewayVars, audioVars, peerVars>>

\* line 1343: await saveMessage(tokenIndex, userId, true); return
TokenSaveDone(n) ==
    /\ tasks[n].pc = "tokenSave"
    /\ persist(tasks[n].tokenIndex, userId, TRUE)
    /\ tasks' = [tasks EXCEPT ![n] = DoneTask]
    /\ UNCHANGED <<currentMessage, isBotThinking, pendingAction, nSubmits, inputSet>>
    /\ UNCHANGED <<sessionVars, reminderVars, gatewayVars, audioVars, peerVars>>

\* lines 1374-1376: await saveMessage(userMessage, ...); setIsBotThinking(true);
\* setTimeout(...)
UserSaveDone(n) ==
    /\ tasks[n].pc = "userSave"
    /\ persist(tasks[n].userMessage, userId, FALSE)
    /\ isBotThinking' = TRUE
    /\ tasks' = [tasks EXCEPT ![n].pc = "timer"]
    /\ UNCHANGED <<currentMessage, pendingAction, nSubmits, inputSet>>
    /\ UNCHANGED <<sessionVars, reminderVars, gatewayVars, audioVars, peerVars>>

\* addDoc(remindersCol, {remindAt, message}) of line 1003: the store names the
\* new document.  emitted and appended count, per document, the reminder
\* utterances handed to saveMessage and those stored (history only).
addReminders(add) ==
    IF add = <<>>
    THEN UNCHANGED <<reminders, nextDocId, emitted, appended>>
    ELSE /\ reminders' = reminders \cup
                {[id |-> nextDocId, remindAt |-> add[1].remindAt,
                  message |-> add[1].message]}
         /\ nextDocId' = nextDocId + 1
         /\ emitted' = Append(emitted, 0)
         /\ appended' = Append(appended, 0)

\* lines 1376-1379: the timer fires and askAgentQ answers
TimerFire(n) ==
    /\ tasks[n].pc = "timer"
    /\ \E o \in askAgentQ(tasks[n].userMessage, tasks[n].userRequestType,
                          tasks[n].history, dbInstance, userId, now) :
         /\ tasks' = [tasks EXCEPT ![n] =
                 [pc |-> "reply", userMessage |-> tasks[n].userMessage,
                  userRequestType |-> tasks[n].userRequestType, res |-> o.res]]
         /\ addReminders(o.add)
    /\ UNCHANGED <<now, firedReminderIds, polls, callbacks>>
    /\ UNCHANGED <<currentMessage, error, isBotThinking, pendingAction, messages,
                   nSubmits, inputSet>>
    /\ UNCHANGED <<sessionVars, store, faults, gatewayVars, audioVars, peerVars>>

replyContentExecutes(res) ==
    IF res.type = "action"
    THEN <<"Agent Q: [Simulated] Archive saved!">>
    ELSE IF res.type = "intent" /\ res.content.action = "ARCHIVE_ACCESS"
    THEN <<"Agent Q: [Simulated] Archive retrieved!">>
    ELSE res.content

\* lines 1382-1393: what is written as the bot reply
replyContent(res) ==
    IF res.type = "action" /\ res.content.action = "ARCHIVE_CONFIRM"
    THEN res.content.details
    ELSE IF res.type = "action" /\ res.content.action = "ARCHIVE_SAVE"
    THEN <<"Agent Q: [Simulated] Archive saved!">>
    ELSE IF res.type = "intent" /\ res.content.action = "ARCHIVE_ACCESS"
    THEN <<"Agent Q: [Simulated] Archive retrieved!">>
    ELSE res.content

pendingAfterReply(res) ==
    IF res.type = "action" /\ res.content.action = "ARCHIVE_CONFIRM"
    THEN res
    ELSE pendingAction

\* lines 1382-1394: the reply is saved, then the state setters run
ReplyDone(n) ==
    /\ tasks[n].pc = "reply"
    /\ persist(replyContent(tasks[n].res), botUserId, FALSE)
    /\ pendingAction' = pendingAfterReply(tasks[n].res)
    /\ isBotThinking' = FALSE
    /\ tasks' = [tasks EXCEPT ![n] = DoneTask]
    /\ UNCHANGED <<currentMessage, nSubmits, inputSet>>
    /\ UNCHANGED <<sessionVars, reminderVars, gatewayVars, audioVars, peerVars>>

\* lines 1350-1352: the follow-up timer fires and askAgentQ answers
FollowupTimerFire(n) ==
    /\ tasks[n].pc = "fuTimer"
    /\ \E o \in askAgentQ(tasks[n].userMessage, "followup", <<>>, FALSE, NoUser, now) :
         tasks' = [tasks EXCEPT ![n] =
                 [pc |-> "fuReply", userMessage |-> tasks[n].userMessage,
                  res |-> o.res]]
    /\ UNCHANGED <<currentMessage, error, isBotThinking, pendingAction, messages,
                   nSubmits, inputSet>>
    /\ UNCHANGED <<sessionVars, store, faults, reminderVars, gatewayVars, audioVars, peerVars>>

followupContent(res) ==
    IF res.type = "action" /\ res.content.action = "ARCHIVE_SAVE"
    THEN <<"Agent Q: [Simulated] Archive saved!">>
    ELSE res.content

FollowupReplyDoneKeepsPending(n) ==
    /\ tasks[n].pc = "fuReply"
    /\ persist(followupContent(tasks[n].res), botUserId, FALSE)
    /\ isBotThinking' = FALSE
    /\ tasks' = [tasks EXCEPT ![n] = DoneTask]
    /\ UNCHANGED <<currentMessage, pendingAction, nSubmits, inputSet>>
    /\ UNCHANGED <<sessionVars, reminderVars, gatewayVars, audioVars, peerVars>>

\* lines 1353-1359
FollowupReplyDone(n) ==
    /\ tasks[n].pc = "fuReply"
    /\ persist(followupContent(tasks[n].res), botUserId, FALSE)
    /\ pendingAction' = NullAction
    /\ isBotThinking' = FALSE
    /\ tasks' = [tasks EXCEPT ![n] = DoneTask]
    /\ UNCHANGED <<currentMessage, nSubmits, inputSet>>
    /\ UNCHANGED <<sessionVars, reminderVars, gatewayVars, audioVars, peerVars>>

(***************************************************************************)
(* Exceptions.  saveMessage builds the document and the collection         *)
(* reference (serverTimestamp, collection: lines 1316-1323) before its try *)
(* block, so an exception of the store client there rejects the awaited    *)
(* call; the catch clauses of handleUserMessage take it.  Such exceptions  *)
(* are counted with the store failures.                                    *)
(***************************************************************************)
ThrownTask(at, caught) == [pc |-> "thrown", at |-> at, caught |-> caught]

\* line 1397: catch(e) around the save of the user's utterance
UserSaveThrows(n) ==
    /\ tasks[n].pc = "userSave"
    /\ faults < MaxFaults
    /\ faults' = faults + 1
    /\ error' = "Agent Q: Message error."
    /\ tasks' = [tasks EXCEPT ![n] = ThrownTask("userSave", TRUE)]
    /\ UNCHANGED <<currentMessage, isBotThinking, pendingAction, messages,
                   nSubmits, inputSet>>
    /\ UNCHANGED <<sessionVars, store, reminderVars, gatewayVars, audioVars, peerVars>>

ReplyThrowsUncaught(n) ==
    /\ tasks[n].pc = "reply"
    /\ faults < MaxFaults
    /\ faults' = faults + 1
    /\ tasks' = [tasks EXCEPT ![n] = ThrownTask("reply", FALSE)]
    /\ UNCHANGED <<currentMessage, error, isBotThinking, pendingAction, messages,
                   nSubmits, inputSet>>
    /\ UNCHANGED <<sessionVars, store, reminderVars, gatewayVars, audioVars, peerVars>>

\* line 1395: catch(e2) in the timer callback; the setters after the save
\* (setPendingAction, setIsBotThinking(false)) are not reached
ReplyThrows(n) ==
    /\ tasks[n].pc = "reply"
    /\ faults < MaxFaults
    /\ faults' = faults + 1
    /\ error' = "Agent Q: Bot error during command reply."
    /\ tasks' = [tasks EXCEPT ![n] = ThrownTask("reply", TRUE)]
    /\ UNCHANGED <<currentMessage, isBotThinking, pendingAction, messages,
                   nSubmits, inputSet>>
    /\ UNCHANGED <<sessionVars, store, reminderVars, gatewayVars, audioVars, peerVars>>

\* line 1360: catch(e) in the follow-up timer callback; setPendingAction(null)
\* and setIsBotThinking(false) are not reached
FollowupReplyThrows(n) ==
    /\ tasks[n].pc = "fuReply"
    /\ faults < MaxFaults
    /\ faults' = faults + 1
    /\ error' = "Agent Q: Error handling followup."
    /\ tasks' = [tasks EXCEPT ![n] = ThrownTask("fuReply", TRUE)]
    /\ UNCHANGED <<currentMessage, isBotThinking, pendingAction, messages,
                   nSubmits, inputSet>>
    /\ UNCHANGED <<sessionVars, store, reminderVars, gatewayVars, audioVars, peerVars>>

(***************************************************************************)
(* Idle values of the parts a specification leaves alone                   *)
(***************************************************************************)
InitReminderIdle ==
    /\ reminders = {}
    /\ nextDocId = 1
    /\ now = 0
    /\ firedReminderIds = {}
    /\ polls = <<>>
    /\ callbacks = {}
    /\ emitted = <<>>
    /\ appended = <<>>

\* no second instance is running
InitPeerIdle ==
    /\ peerFiredReminderIds = {}
    /\ peerPolls = <<>>
    /\ peerCallbacks = {}
    /\ peerEmitted = <<>>

NoWav == [kind |-> "none"]

NoPart == [kind |-> "none"]

InitAudioIdle ==
    /\ isTtsLoading = FALSE
    /\ ttsPc = "idle"
    /\ ttsPart = NoPart
    /\ ttsWav = NoWav

InitGatewayIdle ==
    /\ gwMaxRetries = 0
    /\ gwSchema = FALSE
    /\ gwAttempt = 0
    /\ gwPc = "idle"
    /\ gwOutcome = [kind |-> "none"]
    /\ gwRequests = 0
    /\ gwDelays = <<>>
    /\ gwLog = <<>>

(***************************************************************************)
(* The session with its router                                             *)
(***************************************************************************)
InitRouterSpec ==
    /\ InitSession
    /\ InitRouter
    /\ inputSet = RouterInputs
    /\ InitReminderIdle
    /\ InitGatewayIdle
    /\ InitAudioIdle
    /\ InitPeerIdle

NextRouter ==
    \/ MountEffect
    \/ AuthStateChanged
    \/ SignInOk
    \/ SignInFailed
    \/ HandshakeEffect
    \/ HandshakeStep
    \/ Type
    \/ UserSubmit
    \/ RejectedSubmit
    \/ \E n \in 1..MaxSubmits : TokenSaveDone(n)
    \/ \E n \in 1..MaxSubmits : UserSaveDone(n)
    \/ \E n \in 1..MaxSubmits : TimerFire(n)
    \/ \E n \in 1..MaxSubmits : ReplyDone(n)
    \/ \E n \in 1..MaxSubmits : FollowupTimerFire(n)
    \/ \E n \in 1..MaxSubmits : FollowupReplyDone(n)
    \/ \E n \in 1..MaxSubmits : UserSaveThrows(n)
    \/ \E n \in 1..MaxSubmits : ReplyThrows(n)
    \/ \E n \in 1..MaxSubmits : FollowupReplyThrows(n)

SpecRouter == InitRouterSpec /\ [][NextRouter]_vars

(***************************************************************************)
(* Reminder scheduler: the polling effect (lines 1216-1240)                *)
(***************************************************************************)
BatchLimit == 10

MinuteMs == 60000

\* What the user sends in the reminder specification
ReminderCommands == {
    <<"/", "r", "e", "m", "i", "n", "d", "m", "e", " ", "1", "m", " ", "\"",
      "c", "a", "l", "l", " ", "S", "a", "m", "\"">>,
    <<"/", "r", "e", "m", "i", "n", "d", "m", "e", " ", "2", "m", " ", "\"",
      "b", "\"">> }

reminderText(message) == <<"(alarm clock) Reminder: ">> \o message

queryRemindersNoLimit(docs, n) == docs

\* query(remindersCol, orderBy('remindAt'), limit(10)): the first documents in
\* the order of remindAt (the store breaks ties by document id)
queryReminders(docs, n) ==
    LET before(e, d) == \/ e.remindAt < d.remindAt
                        \/ e.remindAt = d.remindAt /\ e.id < d.id
    IN  {d \in docs : Cardinality({e \in docs : before(e, d)}) < n}

\* the session is established, no reminder is stored, the clock is at 0
InitReminderSpec ==
    /\ firebaseConfig = TRUE
    /\ dbInstance = TRUE
    /\ userId \in Uids
    /\ isAuthReady = TRUE
    /\ isSecure = TRUE
    /\ qkdStatus = handshakeSteps[Len(handshakeSteps)]
    /\ authPc = "signedIn"
    /\ hsTimers = <<>>
    /\ InitRouter
    /\ inputSet = ReminderCommands
    /\ InitReminderIdle
    /\ InitGatewayIdle
    /\ InitAudioIdle
    /\ InitPeerIdle

\* The /remindme command reaches askAgentQ (line 1379) and the reminder is
\* added to the collection
RemindmeCommand ==
    /\ nextDocId <= MaxReminders
    /\ \E q \in inputSet :
         \E o \in askAgentQ(q, classify(q), <<>>, dbInstance, userId, now) :
             o.add # <<>> /\ addReminders(o.add)
    /\ UNCHANGED <<now, firedReminderIds, polls, callbacks>>
    /\ UNCHANGED <<sessionVars, routerVars, store, faults, gatewayVars, audioVars, peerVars>>

\* Date.now() moves on
AdvanceClock ==
    /\ now < MaxClock * MinuteMs
    /\ now' = now + MinuteMs
    /\ UNCHANGED <<reminders, nextDocId, firedReminderIds, polls, callbacks,
                   emitted, appended>>
    /\ UNCHANGED <<sessionVars, routerVars, store, faults, gatewayVars, audioVars, peerVars>>

\* setInterval fires: the tick issues its query (lines 1220-1223)
PollTick ==
    /\ dbInstance
    /\ userId # NoUser
    /\ Len(polls) < MaxPolls
    /\ polls' = Append(polls, [pc |-> "query"])
    /\ UNCHANGED <<reminders, nextDocId, now, firedReminderIds, callbacks,
                   emitted, appended>>
    /\ UNCHANGED <<sessionVars, routerVars, store, faults, gatewayVars, audioVars, peerVars>>

\* the store answers getDocs with the batch as it is now
PollQuery(p) ==
    /\ polls[p].pc = "query"
    /\ polls' = [polls EXCEPT ![p] =
            [pc |-> "fetched", snap |-> queryReminders(reminders, BatchLimit)]]
    /\ UNCHANGED <<reminders, nextDocId, now, firedReminderIds, callbacks,
                   emitted, appended>>
    /\ UNCHANGED <<sessionVars, routerVars, store, faults, gatewayVars, audioVars, peerVars>>

PollQueryFailedMarksFired(p) ==
    /\ polls[p].pc = "query"
    /\ faults < MaxFaults
    /\ faults' = faults + 1
    /\ polls' = [polls EXCEPT ![p] = [pc |-> "failed"]]
    /\ error' = "Agent Q: Error polling reminders."
    /\ firedReminderIds' = firedReminderIds \cup {d.id : d \in reminders}
    /\ UNCHANGED <<reminders, nextDocId, now, callbacks, emitted, appended>>
    /\ UNCHANGED <<currentMessage, isBotThinking, pendingAction, messages, tasks,
                   nSubmits, inputSet>>
    /\ UNCHANGED <<sessionVars, store, gatewayVars, audioVars, peerVars>>

\* getDocs rejects: the catch of lines 1234-1237
PollQueryFailed(p) ==
    /\ polls[p].pc = "query"
    /\ faults < MaxFaults
    /\ faults' = faults + 1
    /\ polls' = [polls EXCEPT ![p] = [pc |-> "failed"]]
    /\ error' = "Agent Q: Error polling reminders."
    /\ UNCHANGED <<reminders, nextDocId, now, firedReminderIds, callbacks,
                   emitted, appended>>
    /\ UNCHANGED <<currentMessage, isBotThinking, pendingAction, messages, tasks,
                   nSubmits, inputSet>>
    /\ UNCHANGED <<sessionVars, store, gatewayVars, audioVars, peerVars>>

\* the documents of a batch that the tick fires: due, and not fired before
toFire(snap, t, fired) == {d \in snap : d.remindAt <= t /\ d.id \notin fired}

PollProcessNoFiredCheck(p) ==
    /\ polls[p].pc = "fetched"
    /\ LET due == toFire(polls[p].snap, now, {})
       IN  /\ firedReminderIds' = firedReminderIds \cup {d.id : d \in due}
           /\ emitted' = [i \in 1..Len(emitted) |->
                             IF \E d \in due : d.id = i
                             THEN emitted[i] + 1 ELSE emitted[i]]
           /\ callbacks' = callbacks \cup
                             {[poll |-> p, id |-> d.id, message |-> d.message,
                               pc |-> "save"] : d \in due}
    /\ polls' = [polls EXCEPT ![p] =
            [pc |-> "done", snap |-> polls[p].snap, now |-> now]]
    /\ UNCHANGED <<reminders, nextDocId, now, appended>>
    /\ UNCHANGED <<sessionVars, routerVars, store, faults, gatewayVars, audioVars, peerVars>>

PollProcessForgets(p) ==
    /\ polls[p].pc = "fetched"
    /\ LET due == toFire(polls[p].snap, now, firedReminderIds)
       IN  /\ emitted' = [i \in 1..Len(emitted) |->
                             IF \E d \in due : d.id = i
                             THEN emitted[i] + 1 ELSE emitted[i]]
           /\ callbacks' = callbacks \cup
                             {[poll |-> p, id |-> d.id, message |-> d.message,
                               pc |-> "save"] : d \in due}
    /\ polls' = [polls EXCEPT ![p] =
            [pc |-> "done", snap |-> polls[p].snap, now |-> now]]
    /\ UNCHANGED <<reminders, nextDocId, now, appended, firedReminderIds>>
    /\ UNCHANGED <<sessionVars, routerVars, store, faults, gatewayVars, audioVars, peerVars>>

\* lines 1224-1230: the tick resumes with the batch, reads the clock, and runs
\* every callback of snap.forEach up to its first await; the test of the
\* fired-id set and the add are in one synchronous stretch
PollProcess(p) ==
    /\ polls[p].pc = "fetched"
    /\ LET due == toFire(polls[p].snap, now, firedReminderIds)
       IN  /\ firedReminderIds' = firedReminderIds \cup {d.id : d \in due}
           /\ emitted' = [i \in 1..Len(emitted) |->
                             IF \E d \in due : d.id = i
                             THEN emitted[i] + 1 ELSE emitted[i]]
           /\ callbacks' = callbacks \cup
                             {[poll |-> p, id |-> d.id, message |-> d.message,
                               pc |-> "save"] : d \in due}
    /\ polls' = [polls EXCEPT ![p] =
            [pc |-> "done", snap |-> polls[p].snap, now |-> now]]
    /\ UNCHANGED <<reminders, nextDocId, now, appended>>
    /\ UNCHANGED <<sessionVars, routerVars, store, faults, gatewayVars, audioVars, peerVars>>

\* line 1230: await saveMessage(reminder text, botUserId) returns
ReminderSaveDone(c) ==
    /\ c \in callbacks
    /\ c.pc = "save"
    /\ persist(reminderText(c.message), botUserId, FALSE)
    /\ appended' = [appended EXCEPT ![c.id] =
                       IF store' # store THEN @ + 1 ELSE @]
    /\ callbacks' = (callbacks \ {c}) \cup {[c EXCEPT !.pc = "delete"]}
    /\ UNCHANGED <<reminders, nextDocId, now, firedReminderIds, polls, emitted>>
    /\ UNCHANGED <<currentMessage, isBotThinking, pendingAction, tasks, nSubmits,
                   inputSet>>
    /\ UNCHANGED <<sessionVars, gatewayVars, audioVars, peerVars>>

\* line 1231: await deleteDoc(...) returns
ReminderDeleteDone(c) ==
    /\ c \in callbacks
    /\ c.pc = "delete"
    /\ reminders' = {d \in reminders : d.id # c.id}
    /\ callbacks' = callbacks \ {c}
    /\ UNCHANGED <<nextDocId, now, firedReminderIds, polls, emitted, appended>>
    /\ UNCHANGED <<sessionVars, routerVars, store, faults, gatewayVars, audioVars, peerVars>>

\* deleteDoc rejects: the callback ends with an unhandled rejection
ReminderDeleteFailed(c) ==
    /\ c \in callbacks
    /\ c.pc = "delete"
    /\ faults < MaxFaults
    /\ faults' = faults + 1
    /\ callbacks' = callbacks \ {c}
    /\ UNCHANGED <<reminders, nextDocId, now, firedReminderIds, polls, emitted,
                   appended>>
    /\ UNCHANGED <<sessionVars, routerVars, store, gatewayVars, audioVars, peerVars>>

NextReminder ==
    \/ RemindmeCommand
    \/ AdvanceClock
    \/ PollTick
    \/ \E p \in 1..Len(polls) : PollQuery(p)
    \/ \E p \in 1..Len(polls) : PollQueryFailed(p)
    \/ \E p \in 1..Len(polls) : PollProcess(p)
    \/ \E c \in callbacks : ReminderSaveDone(c)
    \/ \E c \in callbacks : ReminderDeleteDone(c)
    \/ \E c \in callbacks : ReminderDeleteFailed(c)

SpecReminder == InitReminderSpec /\ [][NextReminder]_vars

\* The interval timer keeps firing, and a tick whose query has been answered
\* goes on to process the batch
SpecReminderFair ==
    /\ SpecReminder
    /\ WF_vars(PollTick)
    /\ WF_vars(\E p \in 1..Len(polls) : PollProcess(p))

(***************************************************************************)
(* The scheduler over a backlog: the collection already holds more records *)
(* than one batch (stored by earlier sessions), the fired-id set of the    *)
(* new instance is empty.  The later a record was added, the earlier it is *)
(* due; all carry the same message.                                        *)
(***************************************************************************)
BacklogSize == BatchLimit + 2

Backlog ==
    {[id |-> k, remindAt |-> (BacklogSize - k) * MinuteMs, message |-> <<"b">>] :
        k \in 1..BacklogSize}

InitBacklogSpec ==
    /\ firebaseConfig = TRUE
    /\ dbInstance = TRUE
    /\ userId \in Uids
    /\ isAuthReady = TRUE
    /\ isSecure = TRUE
    /\ qkdStatus = handshakeSteps[Len(handshakeSteps)]
    /\ authPc = "signedIn"
    /\ hsTimers = <<>>
    /\ InitRouter
    /\ inputSet = {}
    /\ reminders = Backlog
    /\ nextDocId = BacklogSize + 1
    /\ now = 0
    /\ firedReminderIds = {}
    /\ polls = <<>>
    /\ callbacks = {}
    /\ emitted = [k \in 1..BacklogSize |-> 0]
    /\ appended = [k \in 1..BacklogSize |-> 0]
    /\ InitGatewayIdle
    /\ InitAudioIdle
    /\ InitPeerIdle

NextBacklog ==
    \/ AdvanceClock
    \/ PollTick
    \/ \E p \in 1..Len(polls) : PollQuery(p)
    \/ \E p \in 1..Len(polls) : PollQueryFailed(p)
    \/ \E p \in 1..Len(polls) : PollProcess(p)
    \/ \E c \in callbacks : ReminderSaveDone(c)
    \/ \E c \in callbacks : ReminderDeleteDone(c)
    \/ \E c \in callbacks : ReminderDeleteFailed(c)

SpecBacklog == InitBacklogSpec /\ [][NextBacklog]_vars

(***************************************************************************)
(* Two running instances of one user (two tabs share the sign-in, so both  *)
(* poll users/<uid>/reminders and write to the same message collection).   *)
(* Each instance has its own firedReminderIdsRef (line 1213) and runs the  *)
(* polling effect of lines 1216-1240 on its own timer.  The collection     *)
(* holds a record stored earlier.                                          *)
(***************************************************************************)
StoredEarlier ==
    {[id |-> 1, remindAt |-> MinuteMs, message |-> <<"c", "a", "l", "l">>]}

InitTwoInstancesSpec ==
    /\ firebaseConfig = TRUE
    /\ dbInstance = TRUE
    /\ userId \in Uids
    /\ isAuthReady = TRUE
    /\ isSecure = TRUE
    /\ qkdStatus = handshakeSteps[Len(handshakeSteps)]
    /\ authPc = "signedIn"
    /\ hsTimers = <<>>
    /\ InitRouter
    /\ inputSet = {}
    /\ reminders = StoredEarlier
    /\ nextDocId = Cardinality(StoredEarlier) + 1
    /\ now = 0
    /\ firedReminderIds = {}
    /\ polls = <<>>
    /\ callbacks = {}
    /\ emitted = [k \in 1..Cardinality(StoredEarlier) |-> 0]
    /\ appended = [k \in 1..Cardinality(StoredEarlier) |-> 0]
    /\ InitGatewayIdle
    /\ InitAudioIdle
    /\ peerFiredReminderIds = {}
    /\ peerPolls = <<>>
    /\ peerCallbacks = {}
    /\ peerEmitted = [k \in 1..Cardinality(StoredEarlier) |-> 0]

\* the other instance's setInterval fires (lines 1220-1223)
PeerPollTick ==
    /\ Len(peerPolls) < MaxPolls
    /\ peerPolls' = Append(peerPolls, [pc |-> "query"])
    /\ UNCHANGED <<peerFiredReminderIds, peerCallbacks, peerEmitted>>
    /\ UNCHANGED <<sessionVars, routerVars, store, faults, reminderVars,
                   gatewayVars, audioVars>>

PeerPollQuery(p) ==
    /\ peerPolls[p].pc = "query"
    /\ peerPolls' = [peerPolls EXCEPT ![p] =
            [pc |-> "fetched", snap |-> queryReminders(reminders, BatchLimit)]]
    /\ UNCHANGED <<peerFiredReminderIds, peerCallbacks, peerEmitted>>
    /\ UNCHANGED <<sessionVars, routerVars, store, faults, reminderVars,
                   gatewayVars, audioVars>>

PeerPollProcessNoFiredCheck(p) ==
    /\ peerPolls[p].pc = "fetched"
    /\ LET due == toFire(peerPolls[p].snap, now, {})
       IN  /\ peerFiredReminderIds' = peerFiredReminderIds \cup {d.id : d \in due}
           /\ peerEmitted' = [i \in 1..Len(peerEmitted) |->
                                 IF \E d \in due : d.id = i
                                 THEN peerEmitted[i] + 1 ELSE peerEmitted[i]]
           /\ peerCallbacks' = peerCallbacks \cup
                                 {[poll |-> p, id |-> d.id, message |-> d.message,
                                   pc |-> "save"] : d \in due}
    /\ peerPolls' = [peerPolls EXCEPT ![p] =
            [pc |-> "done", snap |-> peerPolls[p].snap, now |-> now]]
    /\ UNCHANGED <<sessionVars, routerVars, store, faults, reminderVars,
                   gatewayVars, audioVars>>

\* lines 1224-1229 in the other instance: the test is against its own set
PeerPollProcess(p) ==
    /\ peerPolls[p].pc = "fetched"
    /\ LET due == toFire(peerPolls[p].snap, now, peerFiredReminderIds)
       IN  /\ peerFiredReminderIds' = peerFiredReminderIds \cup {d.id : d \in due}
           /\ peerEmitted' = [i \in 1..Len(peerEmitted) |->
                                 IF \E d \in due : d.id = i
                                 THEN peerEmitted[i] + 1 ELSE peerEmitted[i]]
           /\ peerCallbacks' = peerCallbacks \cup
                                 {[poll |-> p, id |-> d.id, message |-> d.message,
                                   pc |-> "save"] : d \in due}
    /\ peerPolls' = [peerPolls EXCEPT ![p] =
            [pc |-> "done", snap |-> peerPolls[p].snap, now |-> now]]
    /\ UNCHANGED <<sessionVars, routerVars, store, faults, reminderVars,
                   gatewayVars, audioVars>>

\* line 1230 in the other instance; this instance's listener receives the
\* new snapshot, the error banner of a failure is the other instance's
PeerSaveDone(c) ==
    /\ c \in peerCallbacks
    /\ c.pc = "save"
    /\ \E ok \in addDocAnswers :
         LET r == saveMessage(reminderText(c.message), botUserId, FALSE, ok)
         IN  /\ store' = r.store
             /\ messages' = IF r.saved THEN decodeSnapshot(r.store) ELSE messages
             /\ faults' = IF r.failed THEN faults + 1 ELSE faults
    /\ appended' = [appended EXCEPT ![c.id] =
                       IF store' # store THEN @ + 1 ELSE @]
    /\ peerCallbacks' = (peerCallbacks \ {c}) \cup {[c EXCEPT !.pc = "delete"]}
    /\ UNCHANGED <<peerFiredReminderIds, peerPolls, peerEmitted>>
    /\ UNCHANGED <<reminders, nextDocId, now, firedReminderIds, polls, callbacks,
                   emitted>>
    /\ UNCHANGED <<currentMessage, error, isBotThinking, pendingAction, tasks,
                   nSubmits, inputSet>>
    /\ UNCHANGED <<sessionVars, gatewayVars, audioVars>>

\* line 1231 in the other instance (deleting a document that is already gone
\* succeeds)
PeerDeleteDone(c) ==
    /\ c \in peerCallbacks
    /\ c.pc = "delete"
    /\ reminders' = {d \in reminders : d.id # c.id}
    /\ peerCallbacks' = peerCallbacks \ {c}
    /\ UNCHANGED <<peerFiredReminderIds, peerPolls, peerEmitted>>
    /\ UNCHANGED <<nextDocId, now, firedReminderIds, polls, callbacks, emitted,
                   appended>>
    /\ UNCHANGED <<sessionVars, routerVars, store, faults, gatewayVars, audioVars>>

NextTwoInstances ==
    \/ AdvanceClock
    \/ PollTick
    \/ \E p \in 1..Len(polls) : PollQuery(p)
    \/ \E p \in 1..Len(polls) : PollQueryFailed(p)
    \/ \E p \in 1..Len(polls) : PollProcess(p)
    \/ \E c \in callbacks : ReminderSaveDone(c)
    \/ \E c \in callbacks : ReminderDeleteDone(c)
    \/ \E c \in callbacks : ReminderDeleteFailed(c)
    \/ PeerPollTick
    \/ \E p \in 1..Len(peerPolls) : PeerPollQuery(p)
    \/ \E p \in 1..Len(peerPolls) : PeerPollProcess(p)
    \/ \E c \in peerCallbacks : PeerSaveDone(c)
    \/ \E c \in peerCallbacks : PeerDeleteDone(c)

SpecTwoInstances == InitTwoInstancesSpec /\ [][NextTwoInstances]_vars

(***************************************************************************)
(* Properties of the reminder scheduler                                    *)
(***************************************************************************)
DocIds == 1..(nextDocId - 1)

\* C4: within one running instance a reminder utterance is emitted at most
\* once for each record, however the poll ticks overlap
C4_DeliveredAtMostOnce ==
    \A id \in DocIds : emitted[id] <= 1 /\ appended[id] <= 1

\* two ticks both fetched the same due record, and it was emitted once
C4_Witness ==
    \E p1, p2 \in 1..Len(polls) :
        /\ p1 # p2
        /\ polls[p1].pc = "done" /\ polls[p2].pc = "done"
        /\ \E d \in polls[p1].snap \cap polls[p2].snap :
              /\ d.remindAt <= polls[p1].now
              /\ d.remindAt <= polls[p2].now
              /\ emitted[d.id] = 1

\* C5: once a record is due and a poll tick that saw it due has run to the
\* end, exactly one reminder utterance for it is stored and the record is
\* deleted
C5_DueReminderDelivered ==
    \A p \in 1..Len(polls) :
        polls[p].pc = "done" =>
            \A d \in polls[p].snap :
                (/\ d.remindAt <= polls[p].now
                 /\ ~\E c \in callbacks : c.id = d.id)
                => /\ appended[d.id] = 1
                   /\ ~\E e \in reminders : e.id = d.id

(***************************************************************************)
(* Gateway: callGeminiApi (lines 152-202; the same text in                 *)
(* src/unnamed/part_000, lines 178-223).  One call; what the service       *)
(* answers to each request is the environment's choice.  gwLog records the *)
(* answers, gwDelays the backoff sleeps (ms).                              *)
(***************************************************************************)
\* fetch rejects (transport failure), or resolves with a status and a body:
\* notJson (response.json() rejects), noText (no candidates[0].content.
\* parts[0].text), textBadJson (text that JSON.parse rejects), textJson
Transport == [kind |-> "throw", status |-> 0, body |-> "none"]

Http(status, body) == [kind |-> "http", status |-> status, body |-> body]

Responses ==
    {Transport, Http(429, "none"), Http(500, "none"), Http(404, "none")}
    \cup {Http(200, b) : b \in {"notJson", "noText", "textBadJson", "textJson"}}

\* Math.random() * 1000, in [0, 1000)
Jitters == {0, 999}

RECURSIVE pow2(_)
pow2(n) == IF n = 0 THEN 1 ELSE 2 * pow2(n - 1)

backoffDelayLinear(attempt, jitter) == attempt * 1000 + jitter

\* line 177
backoffDelay(attempt, jitter) == pow2(attempt) * 1000 + jitter

ServiceUnavailable == [kind |-> "error", message |-> <<"Failed to connect to the AI service.">>]

MaximumRetries == [kind |-> "error", message |-> <<"Maximum retry attempts reached.">>]

statusError(status) ==
    [kind |-> "error", message |-> <<"API call failed with status: ", ToString(status)>>]

MalformedResponse ==
    [kind |-> "error", message |-> <<"Structured response missing or invalid.">>]

responseOk(resp) == resp.kind = "http" /\ resp.status >= 200 /\ resp.status <= 299

shouldBackoffOffByOne(resp, attempt, maxRetries) ==
    resp.status = 429 /\ attempt < maxRetries

\* line 176
shouldBackoff(resp, attempt, maxRetries) ==
    resp.status = 429 /\ attempt < maxRetries - 1

\* The try block of lines 168-193 for one answer: what it does next.
\* sleep: backoff then continue; return: the value returned; throw: the error
\* that reaches the catch
tryBlock(resp, attempt, maxRetries, schema) ==
    IF resp.kind = "throw"
    THEN [t |-> "throw", err |-> [kind |-> "error", message |-> <<"fetch failed">>]]
    ELSE IF ~responseOk(resp)
    THEN IF shouldBackoff(resp, attempt, maxRetries)
         THEN [t |-> "sleep"]
         ELSE [t |-> "throw", err |-> statusError(resp.status)]
    ELSE IF resp.body = "notJson"
    THEN [t |-> "throw", err |-> [kind |-> "error", message |-> <<"invalid json">>]]
    ELSE IF schema
    THEN IF resp.body = "noText"
         THEN [t |-> "throw", err |-> MalformedResponse]
         ELSE IF resp.body = "textBadJson"
         THEN [t |-> "throw", err |-> [kind |-> "error", message |-> <<"invalid json">>]]
         ELSE [t |-> "return", value |-> [kind |-> "returned", parsed |-> TRUE,
                                          of |-> resp]]
    ELSE [t |-> "return", value |-> [kind |-> "returned", parsed |-> FALSE,
                                     of |-> resp]]

rethrowsAlways(attempt, maxRetries) == TRUE

isLastAttemptLate(attempt, maxRetries) == attempt = maxRetries

\* line 195
isLastAttempt(attempt, maxRetries) == attempt = maxRetries - 1

InitGateway ==
    /\ gwMaxRetries \in 0..MaxAttempts
    /\ gwSchema \in BOOLEAN
    /\ gwAttempt = 0
    /\ gwPc = "loop"
    /\ gwOutcome = [kind |-> "running"]
    /\ gwRequests = 0
    /\ gwDelays = <<>>
    /\ gwLog = <<>>

\* one iteration of the for loop: the request, its answer, and the try/catch
GwAttempt ==
    /\ gwPc = "loop"
    /\ gwAttempt < gwMaxRetries
    /\ gwRequests' = gwRequests + 1
    /\ \E resp \in Responses :
         LET r == tryBlock(resp, gwAttempt, gwMaxRetries, gwSchema)
         IN  /\ gwLog' = Append(gwLog, resp)
             /\ IF r.t = "return"
                THEN /\ gwOutcome' = r.value
                     /\ gwPc' = "done"
                     /\ UNCHANGED <<gwAttempt, gwDelays>>
                ELSE IF r.t = "sleep"
                THEN /\ \E j \in Jitters :
                          gwDelays' = Append(gwDelays, backoffDelay(gwAttempt, j))
                     /\ gwPc' = "sleep"
                     /\ UNCHANGED <<gwAttempt, gwOutcome>>
                ELSE IF isLastAttempt(gwAttempt, gwMaxRetries)
                THEN /\ gwOutcome' = ServiceUnavailable
                     /\ gwPc' = "done"
                     /\ UNCHANGED <<gwAttempt, gwDelays>>
                ELSE /\ gwAttempt' = gwAttempt + 1
                     /\ UNCHANGED <<gwPc, gwOutcome, gwDelays>>
    /\ UNCHANGED <<gwMaxRetries, gwSchema>>
    /\ UNCHANGED <<sessionVars, routerVars, store, faults, reminderVars, audioVars, peerVars>>

\* lines 178-179: the backoff timer fires; continue
GwSleepDone ==
    /\ gwPc = "sleep"
    /\ gwPc' = "loop"
    /\ gwAttempt' = gwAttempt + 1
    /\ UNCHANGED <<gwMaxRetries, gwSchema, gwOutcome, gwRequests, gwDelays, gwLog>>
    /\ UNCHANGED <<sessionVars, routerVars, store, faults, reminderVars, audioVars, peerVars>>

\* line 201: the loop ended without a return or a throw
GwLoopExit ==
    /\ gwPc = "loop"
    /\ gwAttempt >= gwMaxRetries
    /\ gwOutcome' = MaximumRetries
    /\ gwPc' = "done"
    /\ UNCHANGED <<gwMaxRetries, gwSchema, gwAttempt, gwRequests, gwDelays, gwLog>>
    /\ UNCHANGED <<sessionVars, routerVars, store, faults, reminderVars, audioVars, peerVars>>

\* the component is not mounted: only the gateway call runs
InitGatewaySpec ==
    /\ InitSession
    /\ firebaseConfig = FALSE
    /\ InitRouter
    /\ inputSet = {}
    /\ InitReminderIdle
    /\ InitGateway
    /\ InitAudioIdle
    /\ InitPeerIdle

NextGateway ==
    \/ GwAttempt
    \/ GwSleepDone
    \/ GwLoopExit

SpecGateway == InitGatewaySpec /\ [][NextGateway]_vars

(***************************************************************************)
(* Properties of the gateway                                               *)
(***************************************************************************)
GwDone == gwPc = "done"

\* an answer that lets the call return
attemptSucceeded(resp) ==
    /\ responseOk(resp)
    /\ resp.body # "notJson"
    /\ gwSchema => resp.body = "textJson"

\* C6: under sustained HTTP 429 (maxAttempts >= 1) the call makes maxAttempts
\* requests, sleeps maxAttempts - 1 times between them, and fails with
\* ServiceUnavailable
C6_Sustained429 ==
    (/\ GwDone
     /\ gwMaxRetries >= 1
     /\ \A i \in 1..Len(gwLog) : gwLog[i].status = 429)
    => /\ gwRequests = gwMaxRetries
       /\ Len(gwDelays) = gwMaxRetries - 1
       /\ gwOutcome = ServiceUnavailable

C6_Witness ==
    /\ GwDone
    /\ gwMaxRetries >= 2
    /\ Len(gwLog) = gwMaxRetries
    /\ \A i \in 1..Len(gwLog) : gwLog[i].status = 429
    /\ gwOutcome = ServiceUnavailable

\* C7: a non-success status other than 429 ends the call at once: it is the
\* last request made, and the error reported carries the status
C7_OtherStatusFailsImmediately ==
    \A i \in 1..Len(gwLog) :
        (gwLog[i].kind = "http" /\ ~responseOk(gwLog[i]) /\ gwLog[i].status # 429)
        => /\ i = Len(gwLog)
           /\ GwDone
           /\ gwOutcome = statusError(gwLog[i].status)

\* C8: with a response schema, a successful response without the nested text
\* field ends the call with MalformedResponse, which is not ServiceUnavailable
C8_MalformedDistinct ==
    /\ MalformedResponse # ServiceUnavailable
    /\ (/\ GwDone
        /\ gwSchema
        /\ Len(gwLog) > 0
        /\ gwLog[Len(gwLog)] = Http(200, "noText"))
       => gwOutcome = MalformedResponse

\* C9: failed attempts are swallowed until maxAttempts requests were made (no
\* error surfaces earlier); if they all failed the one error reported is
\* ServiceUnavailable; a returned value is the response of the attempt that
\* succeeded
C9_TransportRetry ==
    gwMaxRetries >= 1 =>
        /\ gwRequests <= gwMaxRetries
        /\ ~GwDone => gwOutcome = [kind |-> "running"]
        /\ (GwDone /\ gwOutcome.kind = "error")
           => /\ gwOutcome = ServiceUnavailable
              /\ gwRequests = gwMaxRetries
              /\ \A i \in 1..Len(gwLog) : ~attemptSucceeded(gwLog[i])
        /\ (GwDone /\ gwOutcome.kind = "returned")
           => /\ attemptSucceeded(gwLog[Len(gwLog)])
              /\ gwOutcome.of = gwLog[Len(gwLog)]
              /\ \A i \in 1..(Len(gwLog) - 1) : ~attemptSucceeded(gwLog[i])

\* every request but the last met a transport failure; the last one returned
C9_Witness ==
    /\ GwDone
    /\ Len(gwLog) = gwMaxRetries
    /\ gwMaxRetries >= 2
    /\ \A i \in 1..(Len(gwLog) - 1) : gwLog[i] = Transport
    /\ gwOutcome.kind = "returned"

\* C31: the backoff slept after a 429 at attempt k lies in
\* [2^k * 1000, 2^k * 1000 + 1000) ms, so the bounds of successive backoffs
\* never decrease, and no backoff is slept after the last attempt
C31_BackoffBounds ==
    /\ gwPc = "sleep" =>
           /\ Len(gwDelays) >= 1
           /\ gwDelays[Len(gwDelays)] >= pow2(gwAttempt) * 1000
           /\ gwDelays[Len(gwDelays)] < pow2(gwAttempt) * 1000 + 1000
           /\ gwAttempt < gwMaxRetries - 1
           /\ gwLog[Len(gwLog)].status = 429
    /\ \A i \in 1..(Len(gwDelays) - 1) :
           (gwDelays[i] \div 1000) * 1000 <= (gwDelays[i + 1] \div 1000) * 1000
    /\ Len(gwDelays) <= gwRequests
    /\ (GwDone /\ gwRequests >= 1) => Len(gwDelays) < gwRequests
    /\ gwMaxRetries >= 1 => Len(gwDelays) <= gwMaxRetries - 1

\* C31 witness: the second backoff of a call is being slept
C31_Witness ==
    /\ gwPc = "sleep"
    /\ gwAttempt >= 1
    /\ Len(gwDelays) = 2

\* C38: for maxAttempts >= 1 and any sequence of answers the call makes at
\* most maxAttempts requests and ends with a returned response or with
\* ServiceUnavailable; it ends with "Maximum retry attempts reached." only
\* when maxAttempts <= 0
C38_AttemptsBounded ==
    /\ gwMaxRetries >= 1 =>
           /\ gwRequests <= gwMaxRetries
           /\ GwDone => \/ gwOutcome.kind = "returned"
                         \/ gwOutcome = ServiceUnavailable
    /\ gwOutcome = MaximumRetries => gwMaxRetries <= 0

\* C38 witness: a call has used all its attempts on a transport failure, a
\* 429 and another error status
C38_Witness ==
    /\ GwDone
    /\ gwMaxRetries >= 1
    /\ gwRequests = gwMaxRetries
    /\ gwOutcome = ServiceUnavailable
    /\ \E i \in 1..Len(gwLog) : gwLog[i] = Transport
    /\ \E i \in 1..Len(gwLog) : gwLog[i].status = 429
    /\ \E i \in 1..Len(gwLog) : gwLog[i].status = 500

(***************************************************************************)
(* Voice output of the first component: base64ToArrayBuffer, writeString   *)
(* and pcmToWav (lines 101-149) and handleTtsGeneration (lines 614-643).   *)
(* A buffer is the sequence of its bytes, the byte at offset k being       *)
(* element k + 1.  The base64 text of the service's answer is represented  *)
(* by the bytes it decodes to, or as text atob rejects.  An absent         *)
(* mimeType is the empty text: both are falsy in the test of line 631.     *)
(***************************************************************************)
MaxPcmBytes == 4

PcmByteValues == {0, 1, 255}

PcmBuffers == UNION {[1..n -> PcmByteValues] : n \in 0..MaxPcmBytes}

AbsentData == [kind |-> "absent"]

GarbageData == [kind |-> "garbage"]

Base64Data(b) == [kind |-> "base64", bytes |-> b]

AudioData == {AbsentData, GarbageData} \cup {Base64Data(b) : b \in PcmBuffers}

AudioL16 == <<"a", "u", "d", "i", "o", "/", "L", "1", "6">>

MimeTypes == {
    <<>>,
    AudioL16,
    <<"a", "u", "d", "i", "o", "/", "L", "1", "6", ";", "r", "a", "t", "e", "=", "2", "4", "0", "0", "0">>,
    <<"a", "u", "d", "i", "o", "/", "L", "1", "6", ";", "c", "o", "d", "e", "c", "=", "p", "c", "m", ";", "r", "a", "t", "e", "=", "8", "0", "0", "0">>,
    <<"a", "u", "d", "i", "o", "/", "L", "1", "6", ";", "r", "a", "t", "e", "=">>,
    <<"a", "u", "d", "i", "o", "/", "m", "p", "e", "g", ";", "r", "a", "t", "e", "=", "2", "4", "0", "0", "0">> }

TtsParts == [data : AudioData, mimeType : MimeTypes]

\* the rates a direct caller of pcmToWav passes
SampleRates == {8000, 16000, 24000, 44100}

\* a non-empty string is truthy; the base64 text of no bytes is the empty
\* string
truthy(audioData) ==
    \/ audioData.kind = "garbage"
    \/ audioData.kind = "base64" /\ Len(audioData.bytes) > 0

\* mimeType.match(/rate=(\d+)/)[1], or the empty text when there is no match
rateMatch(mimeType) ==
    LET key  == <<"r", "a", "t", "e", "=">>
        hits == {i \in 1..(Len(mimeType) - Len(key)) :
                    /\ SubSeq(mimeType, i, i + Len(key) - 1) = key
                    /\ IsDigit(mimeType[i + Len(key)])}
    IN  IF hits = {} THEN <<>>
        ELSE LET from == (CHOOSE i \in hits : \A j \in hits : i <= j) + Len(key)
                 runs == {j \in from..Len(mimeType) :
                             \A k \in from..j : IsDigit(mimeType[k])}
             IN  SubSeq(mimeType, from, CHOOSE j \in runs : \A k \in runs : j >= k)

DefaultSampleRate == 16000

sampleRateOf(mimeType) ==
    LET sampleRateMatch == rateMatch(mimeType)
    IN  IF sampleRateMatch # <<>> THEN parseInt(sampleRateMatch)
        ELSE DefaultSampleRate

charCodeAt(string, i) ==
    LET c == string[i + 1]
    IN  CASE c = "R" -> 82
          [] c = "I" -> 73
          [] c = "F" -> 70
          [] c = "W" -> 87
          [] c = "A" -> 65
          [] c = "V" -> 86
          [] c = "E" -> 69
          [] c = "f" -> 102
          [] c = "m" -> 109
          [] c = "t" -> 116
          [] c = " " -> 32
          [] c = "d" -> 100
          [] c = "a" -> 97

\* atob followed by the copy of the char codes
base64ToArrayBuffer(base64) == base64.bytes

\* new Int16Array(buffer): a RangeError unless the byte length is a multiple
\* of 2
Int16Array(buffer) ==
    IF Len(buffer) % 2 = 0
    THEN [ok |-> TRUE, buffer |-> buffer, byteLength |-> Len(buffer)]
    ELSE [ok |-> FALSE]

setUint8(view, offset, value) == [view EXCEPT ![offset + 1] = value % 256]

setUint16(view, offset, value) ==
    setUint8(setUint8(view, offset, value), offset + 1, value \div 256)

setUint32BigEndian(view, offset, value) ==
    setUint8(setUint8(setUint8(setUint8(view,
        offset + 3, value),
        offset + 2, value \div 256),
        offset + 1, value \div 65536),
        offset, value \div 16777216)

\* littleEndian = true; the value stays below 2^31 here, its four bytes are
\* the value modulo 2^32
setUint32(view, offset, value) ==
    setUint8(setUint8(setUint8(setUint8(view,
        offset, value),
        offset + 1, value \div 256),
        offset + 2, value \div 65536),
        offset + 3, value \div 16777216)

writeString(view, offset, string) ==
    [i \in 1..Len(view) |->
        IF i > offset /\ i <= offset + Len(string)
        THEN charCodeAt(string, i - offset - 1)
        ELSE view[i]]

HeaderSize == 44

pcmToWav(pcm16, sampleRate) ==
    LET numChannels   == 1
        bitsPerSample == 16
        byteRate      == sampleRate * numChannels * (bitsPerSample \div 8)
        blockAlign    == numChannels * (bitsPerSample \div 8)
        dataSize      == pcm16.byteLength
        buffer        == [i \in 1..(HeaderSize + dataSize) |-> 0]
        v1  == writeString(buffer, 0, <<"R", "I", "F", "F">>)
        v2  == setUint32(v1, 4, 36 + dataSize)
        v3  == writeString(v2, 8, <<"W", "A", "V", "E">>)
        v4  == writeString(v3, 12, <<"f", "m", "t", " ">>)
        v5  == setUint32(v4, 16, 16)
        v6  == setUint16(v5, 20, 1)
        v7  == setUint16(v6, 22, numChannels)
        v8  == setUint32(v7, 24, sampleRate)
        v9  == setUint32(v8, 28, byteRate)
        v10 == setUint16(v9, 32, blockAlign)
        v11 == setUint16(v10, 34, bitsPerSample)
        v12 == writeString(v11, 36, <<"d", "a", "t", "a">>)
        v13 == setUint32(v12, 40, dataSize)
        pcmBytes == pcm16.buffer
    IN  [type  |-> "audio/wav",
         bytes |-> [i \in 1..Len(v13) |->
                       IF i > HeaderSize /\ i - HeaderSize <= Len(pcmBytes)
                       THEN pcmBytes[i - HeaderSize]
                       ELSE v13[i]]]

Wav(blob, pcm16, sampleRate) ==
    [kind |-> "wav", blob |-> blob, pcm |-> pcm16.buffer,
     sampleRate |-> sampleRate]

InvalidFormat == "Agent Q: Voice Decoding failed: Invalid audio format from TTS service."

ServiceError == "Agent Q: Voice Decoding failed: TTS service error."

\* the speaker button of a message (disabled while isTtsLoading, line 301)
TtsGenerate ==
    /\ ttsPc = "idle"
    /\ ~isTtsLoading
    /\ isTtsLoading' = TRUE
    /\ ttsPc' = "calling"
    /\ UNCHANGED <<ttsPart, ttsWav>>
    /\ UNCHANGED <<sessionVars, routerVars, store, faults, reminderVars,
                   gatewayVars, peerVars>>

\* callGeminiApi throws (lines 195-201): the catch and finally of line 642
TtsCallFailed ==
    /\ ttsPc = "calling"
    /\ error' = ServiceError
    /\ isTtsLoading' = FALSE
    /\ ttsPc' = "failed"
    /\ UNCHANGED <<ttsPart, ttsWav>>
    /\ UNCHANGED <<currentMessage, isBotThinking, pendingAction, messages,
                   tasks, nSubmits, inputSet>>
    /\ UNCHANGED <<sessionVars, store, faults, reminderVars, gatewayVars,
                   peerVars>>

\* callGeminiApi returns a result whose first part is ttsPart (lines 627-642)
TtsReturned ==
    /\ ttsPc = "calling"
    /\ LET audioData == ttsPart.data
           mimeType  == ttsPart.mimeType
       IN  IF truthy(audioData) /\ mimeType # <<>> /\ startsWith(mimeType, AudioL16)
           THEN LET sampleRate == sampleRateOf(mimeType)
                IN  IF audioData.kind = "garbage"
                    THEN \* atob throws
                         /\ error' = ServiceError
                         /\ ttsPc' = "threw"
                         /\ ttsWav' = ttsWav
                    ELSE LET pcmData == base64ToArrayBuffer(audioData)
                             pcm16   == Int16Array(pcmData)
                         IN  IF ~pcm16.ok
                             THEN \* new Int16Array throws
                                  /\ error' = ServiceError
                                  /\ ttsPc' = "threw"
                                  /\ ttsWav' = ttsWav
                             ELSE /\ ttsWav' = Wav(pcmToWav(pcm16, sampleRate),
                                                   pcm16, sampleRate)
                                  /\ ttsPc' = "played"
                                  /\ error' = error
           ELSE /\ error' = InvalidFormat
                /\ ttsPc' = "invalid"
                /\ ttsWav' = ttsWav
    /\ isTtsLoading' = FALSE
    /\ UNCHANGED ttsPart
    /\ UNCHANGED <<currentMessage, isBotThinking, pendingAction, messages,
                   tasks, nSubmits, inputSet>>
    /\ UNCHANGED <<sessionVars, store, faults, reminderVars, gatewayVars,
                   peerVars>>

\* pcmToWav applied to a buffer of whole samples, the empty one included
PcmToWavCall ==
    /\ ttsPc = "idle"
    /\ ttsPart.data.kind = "base64"
    /\ Int16Array(ttsPart.data.bytes).ok
    /\ \E sampleRate \in SampleRates :
          LET pcm16 == Int16Array(ttsPart.data.bytes)
          IN  ttsWav' = Wav(pcmToWav(pcm16, sampleRate), pcm16, sampleRate)
    /\ ttsPc' = "converted"
    /\ UNCHANGED <<isTtsLoading, ttsPart>>
    /\ UNCHANGED <<sessionVars, routerVars, store, faults, reminderVars,
                   gatewayVars, peerVars>>

\* pcmToWav applied to no buffer: reading byteLength of null throws
\* (line 120)
PcmToWavOfNull ==
    /\ ttsPc = "idle"
    /\ ttsPart.data.kind = "absent"
    /\ ttsPc' = "convertThrew"
    /\ UNCHANGED <<isTtsLoading, ttsPart, ttsWav>>
    /\ UNCHANGED <<sessionVars, routerVars, store, faults, reminderVars,
                   gatewayVars, peerVars>>

InitAudioSpec ==
    /\ InitSession
    /\ firebaseConfig = FALSE
    /\ InitRouter
    /\ inputSet = {}
    /\ InitReminderIdle
    /\ InitGatewayIdle
    /\ isTtsLoading = FALSE
    /\ ttsPc = "idle"
    /\ ttsPart \in TtsParts
    /\ ttsWav = NoWav
    /\ InitPeerIdle

NextAudio ==
    \/ TtsGenerate
    \/ TtsCallFailed
    \/ TtsReturned
    \/ PcmToWavCall
    \/ PcmToWavOfNull

SpecAudio == InitAudioSpec /\ [][NextAudio]_vars

(***************************************************************************)
(* Properties of the router                                                *)
(***************************************************************************)
Ready == isAuthReady /\ isSecure

\* the step in which handleUserMessage accepts a submission as continuation n
Accepted(n) == tasks[n].pc = "idle" /\ tasks'[n].pc # "idle"

\* the step in which continuation n finishes
Finished(n) == tasks[n].pc # "done" /\ tasks'[n].pc = "done"

botMessage(content) == messageToSave(content, botUserId, FALSE)

appendedOrFailed(content) ==
    \/ store' = Append(store, botMessage(content))
    \/ faults' = faults + 1 /\ store' = store

\* C1: whenever PendingConfirmation is set, the next accepted input is routed
\* as a follow-up, whatever its shape (dictionary phrase, '/' command, text
\* containing 'archive' or 'weather')
C1_PendingRoutesFollowup ==
    [][\A n \in 1..MaxSubmits :
          (Accepted(n) /\ awaitingConfirmation) => tasks'[n].pc = "fuTimer"]_vars

\* C2: when the handling of an input submitted while PendingConfirmation was
\* set completes, PendingConfirmation is unset; and it becomes set again only
\* by a reply that asks for confirmation
C2_ClearedAfterOneFollowup ==
    [][/\ \A n \in 1..MaxSubmits :
            (/\ Finished(n)
             /\ \/ tasks[n].pc = "fuReply"
                \/ tasks[n].pc = "tokenSave" /\ tasks[n].awaiting)
            => pendingAction' = NullAction
       /\ (pendingAction = NullAction /\ pendingAction' # NullAction)
            => \E n \in 1..MaxSubmits :
                  /\ tasks[n].pc = "reply"
                  /\ Finished(n)
                  /\ tasks[n].res.type = "action"
                  /\ tasks[n].res.content.action = "ARCHIVE_CONFIRM"]_vars

ArchivePrompt == <<"Would you like to save the current chat archive? (yes/no)">>

ArchiveSaved == <<"Agent Q: [Simulated] Archive saved!">>

ArchiveRejected == <<"Agent Q: Archive not saved.">>

\* C3: /archive is answered by the confirmation prompt and sets
\* PendingConfirmation.action = ARCHIVE_CONFIRM; a following "yes" is answered
\* by the save confirmation and unsets PendingConfirmation; "no" with nothing
\* pending is dispatched as chat and is answered by the chat reply, not by
\* the rejection
C3_ArchiveScenario ==
    [][\A n \in 1..MaxSubmits :
        /\ (Accepted(n) /\ ~awaitingConfirmation
              /\ trim(currentMessage) = <<"/", "a", "r", "c", "h", "i", "v", "e">>)
           => /\ tasks'[n].pc = "userSave"
              /\ tasks'[n].userRequestType = "command"
        /\ (Finished(n) /\ tasks[n].pc = "reply"
              /\ tasks[n].userMessage = <<"/", "a", "r", "c", "h", "i", "v", "e">>)
           => /\ appendedOrFailed(ArchivePrompt)
              /\ pendingAction'.type = "action"
              /\ pendingAction'.content.action = "ARCHIVE_CONFIRM"
        /\ (Finished(n) /\ tasks[n].pc = "fuReply"
              /\ tasks[n].userMessage = <<"y", "e", "s">>)
           => /\ appendedOrFailed(ArchiveSaved)
              /\ pendingAction' = NullAction
        /\ (Accepted(n) /\ ~awaitingConfirmation
              /\ trim(currentMessage) = <<"n", "o">>)
           => /\ tasks'[n].pc = "userSave"
              /\ tasks'[n].userRequestType = "chat"
        /\ (Finished(n) /\ tasks[n].pc = "reply"
              /\ tasks[n].userMessage = <<"n", "o">>)
           => /\ appendedOrFailed(<<"Agent Q: (Simulated) I received: ", "n", "o">>)
              /\ store' # Append(store, botMessage(ArchiveRejected))]_vars

\* the whole scenario has run without a store failure
C3_Witness ==
    /\ pendingAction = NullAction
    /\ \A n \in 1..MaxSubmits : tasks[n].pc = "done"
    /\ store = << messageToSave(<<"/", "a", "r", "c", "h", "i", "v", "e">>, userId, FALSE),
                  botMessage(ArchivePrompt),
                  botMessage(ArchiveSaved),
                  messageToSave(<<"n", "o">>, userId, FALSE),
                  botMessage(<<"Agent Q: (Simulated) I received: ", "n", "o">>) >>

\* C10: while the session is not Ready no submission reaches the router:
\* nothing is in flight, no user utterance is stored, the input buffer is
\* empty (nothing is queued), and the step that makes the session Ready
\* dispatches nothing
C10_NotReadyRejects ==
    [][~Ready =>
          /\ \A n \in 1..MaxSubmits : tasks[n].pc = "idle" /\ tasks'[n].pc = "idle"
          /\ \A i \in 1..Len(store) : store[i].userId = botUserId
          /\ store' = store
          /\ currentMessage = <<>> /\ currentMessage' = <<>>
          /\ ~isBotThinking /\ ~isBotThinking'
          /\ pendingAction = NullAction /\ pendingAction' = NullAction]_vars

\* a submit gesture was made, and dropped, while an identity and a store
\* connection already existed but the session was not Ready
C10_Witness == ~Ready /\ nSubmits > 0 /\ userId # NoUser /\ dbInstance

\* C11: from the acceptance of a submission until its dispatch has finished
\* (the write of the user's utterance included) no second submission is
\* accepted: at most one dispatch is in flight
InFlight(n) == tasks[n].pc \in {"userSave", "timer", "reply", "fuTimer", "fuReply"}

C11_OneDispatchInFlight ==
    Cardinality({n \in 1..MaxSubmits : InFlight(n)}) <= 1

\* C12: an exception during the dispatch of a command, intent, chat or
\* follow-up is caught in the router: the continuation ends, the error state
\* holds one of the generic failure messages, and nothing else is written
GenericFailures == {"Agent Q: Bot error during command reply.",
                    "Agent Q: Error handling followup."}

C12_HandlerErrorsCaught ==
    [][\A n \in 1..MaxSubmits :
          (tasks[n].pc \in {"reply", "fuReply"} /\ tasks'[n].pc = "thrown")
          => /\ tasks'[n].caught
             /\ error' \in GenericFailures
             /\ store' = store
             /\ messages' = messages]_vars

\* the reply to a follow-up met an exception and the failure is shown
C12_Witness ==
    \E n \in 1..MaxSubmits :
        /\ tasks[n].pc = "thrown"
        /\ tasks[n].at = "fuReply"
        /\ error = "Agent Q: Error handling followup."

(***************************************************************************)
(* One utterance through the router: the session is Ready, the text is in  *)
(* the input buffer (with or without a confirmation pending, that is after *)
(* /archive has been answered), and the shared collection may receive a    *)
(* tokenized document from another client (the collection is public,       *)
(* line 1281; the listener of lines 1283-1298 decodes whatever it holds)    *)
(***************************************************************************)
MaxForeignDocs == 1

OtherUser == <<"another client">>

\* p as configured, in lower case and in upper case
CaseVariants(p) == {p, toLowerCase(p), toUpperCase(p)}

DictionaryInputs ==
    UNION {CaseVariants(tokenDictionary[i]) : i \in 1..Len(tokenDictionary)}

\* the built-in commands in their documented forms (footer and /help text,
\* lines 1038-1046 and 1450-1452)
BuiltinForms == {
    <<"/", "a", "s", "k", " ", "h", "e", "l", "l", "o">>,
    <<"/", "s", "u", "m", "m", "a", "r", "y">>,
    <<"/", "o", "p", "t", "i", "m", "i", "z", "e">>,
    <<"/", "o", "p", "t", "i", "m", "i", "z", "e", " ", "x">>,
    <<"/", "w", "e", "a", "t", "h", "e", "r">>,
    <<"/", "w", "e", "a", "t", "h", "e", "r", " ", "L", "o", "n", "d", "o", "n">>,
    <<"/", "c", "r", "y", "p", "t", "o">>,
    <<"/", "c", "r", "y", "p", "t", "o", " ", "e", "t", "h">>,
    <<"/", "r", "e", "m", "i", "n", "d", "m", "e", " ", "1", "m", " ", "\"", "a", "\"">>,
    <<"/", "r", "e", "m", "i", "n", "d", "m", "e", " ", "1", "M", " ", "\"", "a", "\"">>,
    <<"/", "r", "e", "m", "i", "n", "d", "m", "e", " ", "2", "h", " ", "\"", "a", "\"">>,
    <<"/", "r", "e", "m", "i", "n", "d", "m", "e", " ", "1", "H", " ", "\"", "a", "\"">>,
    <<"/", "a", "r", "c", "h", "i", "v", "e">>,
    <<"/", "a", "d", "m", "i", "n">>,
    <<"/", "h", "e", "l", "p">>,
    <<"/", "t", "o", "k", "e", "n", "l", "i", "s", "t">> }

\* commands whose verb askAgentQ does not know
UnknownVerbs == {
    <<"/", "f", "o", "o">>,
    <<"/", "f", "o", "o", " ", "a", "r", "c", "h", "i", "v", "e">> }

\* texts that are near a dictionary phrase, and plain chat and intent texts
PlainInputs == {
    <<"Y", "e", "s">>,
    <<"Y", "e", "s", ".", ".">>,
    <<"e", "s", ".">>,
    <<"/", "a", "s", "k", "i", "n", "g">>,
    <<"H", "e", "l", "l", "o", ".", " ", "t", "h", "e", "r", "e">>,
    <<"h", "e", "l", "l", "o">>,
    <<"n", "o">>,
    <<"m", "y", " ", "A", "r", "c", "h", "i", "v", "e">>,
    <<"W", "E", "A", "T", "H", "E", "R", " ", "n", "o", "w">>,
    <<"t", "o", "k", "e", "n", "l", "i", "s", "t">> }

\* /remindme with malformed arguments: no number, a unit other than m or h,
\* no quoted message
MalformedReminders == {
    <<"/", "r", "e", "m", "i", "n", "d", "m", "e", " ", "m", " ", "\"", "a", "\"">>,
    <<"/", "r", "e", "m", "i", "n", "d", "m", "e", " ", "5", "d", " ", "\"", "a", "\"">>,
    <<"/", "r", "e", "m", "i", "n", "d", "m", "e", " ", "5", "m">>,
    <<"/", "r", "e", "m", "i", "n", "d", "m", "e", " ", "5", "m", " ", "a">>,
    <<"/", "r", "e", "m", "i", "n", "d", "m", "e", " ", "5", " ", "m", " ", "\"", "a", "\"">>,
    <<"/", "r", "e", "m", "i", "n", "d", "m", "e">>,
    <<"/", "r", "e", "m", "i", "n", "d", "m", "e", " ", "5", "m", " ", "\"", "\"">> }

\* answers to the confirmation prompt
FollowupInputs == {
    <<"y", "e", "s">>,
    <<"y">>,
    <<"Y", "E", "S">>,
    <<"Y">>,
    <<"n">>,
    <<"N", "O">>,
    <<"N">>,
    <<"m", "a", "y", "b", "e">>,
    <<"y", "e", "s", " ", "p", "l", "e", "a", "s", "e">>,
    <<"y", "e", "s", ".">>,
    <<"n", "o", "p", "e">> }

\* the state of PendingConfirmation after /archive has been answered
ArchiveConfirm == ActionRes("ARCHIVE_CONFIRM", ArchivePrompt)

UtteranceInputs ==
    DictionaryInputs \cup BuiltinForms \cup UnknownVerbs \cup PlainInputs
        \cup MalformedReminders \cup FollowupInputs

\* token indices another client may have written
ForeignIndices == (0 - 2)..(Len(tokenDictionary) + 1)

foreignDocs == {i \in 1..Len(store) : store[i].userId = OtherUser}

InitUtteranceSpec ==
    /\ firebaseConfig = TRUE
    /\ dbInstance = TRUE
    /\ userId \in Uids
    /\ isAuthReady = TRUE
    /\ isSecure = TRUE
    /\ qkdStatus = handshakeSteps[Len(handshakeSteps)]
    /\ authPc = "signedIn"
    /\ hsTimers = <<>>
    /\ currentMessage \in UtteranceInputs
    /\ error = NoError
    /\ isBotThinking = FALSE
    /\ pendingAction \in {NullAction, ArchiveConfirm}
    /\ store = IF pendingAction = NullAction THEN <<>>
               ELSE << messageToSave(<<"/", "a", "r", "c", "h", "i", "v", "e">>, userId, FALSE),
                       botMessage(ArchivePrompt) >>
    /\ messages = decodeSnapshot(store)
    /\ tasks = [n \in 1..MaxSubmits |-> IdleTask]
    /\ nSubmits = 0
    /\ faults = 0
    /\ inputSet = {}
    /\ InitReminderIdle
    /\ InitGatewayIdle
    /\ InitAudioIdle
    /\ InitPeerIdle

\* the listener is called with a snapshot that holds one more document,
\* written by another client
ForeignDoc ==
    /\ dbInstance
    /\ userId # NoUser
    /\ Cardinality(foreignDocs) < MaxForeignDocs
    /\ \E i \in ForeignIndices :
         store' = Append(store, messageToSave(i, OtherUser, TRUE))
    /\ messages' = decodeSnapshot(store')
    /\ UNCHANGED <<currentMessage, error, isBotThinking, pendingAction, tasks,
                   nSubmits, inputSet>>
    /\ UNCHANGED <<sessionVars, faults, reminderVars, gatewayVars, audioVars, peerVars>>

NextUtterance ==
    \/ UserSubmit
    \/ ForeignDoc
    \/ AdvanceClock
    \/ \E n \in 1..MaxSubmits : TokenSaveDone(n)
    \/ \E n \in 1..MaxSubmits : UserSaveDone(n)
    \/ \E n \in 1..MaxSubmits : TimerFire(n)
    \/ \E n \in 1..MaxSubmits : ReplyDone(n)
    \/ \E n \in 1..MaxSubmits : FollowupTimerFire(n)
    \/ \E n \in 1..MaxSubmits : FollowupReplyDone(n)

SpecUtterance == InitUtteranceSpec /\ [][NextUtterance]_vars

(***************************************************************************)
(* Properties of the token codec                                           *)
(***************************************************************************)
\* C13: a dictionary phrase typed in any letter case is encoded, and what
\* the stored index decodes to equals the typed phrase up to letter case
C13_RoundTrip ==
    [][\A n \in 1..MaxSubmits :
          /\ (Accepted(n) /\ trim(currentMessage) \in DictionaryInputs)
             => tasks'[n].pc = "tokenSave"
          /\ (tasks[n].pc = "tokenSave" /\ tasks'[n].pc = "done" /\ store' # store)
             => toLowerCase(messages'[Len(messages')].text)
                   = toLowerCase(tasks[n].userMessage)]_vars

\* the last phrase of the dictionary was stored by the user and decoded
C13_Witness ==
    \E k \in 1..Len(store) :
        /\ store[k].userId = userId
        /\ store[k].isTokenized
        /\ store[k].tokenIndex = Len(tokenDictionary) - 1
        /\ messages[k].text = tokenDictionary[Len(tokenDictionary)]

Sentinel(index) == <<"[TOKEN_ERROR: Unknown Index ", ToString(index), "]">>

\* C14: every stored tokenized record is decoded: to the dictionary phrase at
\* its index when the index is a position of the dictionary, to the sentinel
\* text naming the index otherwise (negative indices included)
C14_DecodeTotal ==
    /\ Len(messages) = Len(store)
    /\ \A k \in 1..Len(store) :
          store[k].isTokenized =>
             messages[k].text =
                IF store[k].tokenIndex \in 0..(Len(tokenDictionary) - 1)
                THEN tokenDictionary[store[k].tokenIndex + 1]
                ELSE Sentinel(store[k].tokenIndex)

\* a record with a negative index is shown as the sentinel text
C14_Witness ==
    \E k \in 1..Len(store) :
        /\ store[k].isTokenized
        /\ store[k].tokenIndex < 0
        /\ messages[k].text = Sentinel(store[k].tokenIndex)

\* C15: encode yields the smallest index whose entry equals the phrase
\* ignoring letter case, and null exactly when no entry does (a prefix, a
\* substring or a longer text yields no index)
C15_EncodeExactFirst ==
    [][\A n \in 1..MaxSubmits :
          Accepted(n) =>
             LET s == toLowerCase(trim(currentMessage))
                 eq(i) == toLowerCase(tokenDictionary[i]) = s
             IN  IF \E i \in 1..Len(tokenDictionary) : eq(i)
                 THEN /\ tasks'[n].pc = "tokenSave"
                      /\ eq(tasks'[n].tokenIndex + 1)
                      /\ \A i \in 1..Len(tokenDictionary) :
                            eq(i) => tasks'[n].tokenIndex + 1 <= i
                 ELSE tasks'[n].pc # "tokenSave"]_vars

\* a proper prefix of a dictionary phrase was not encoded
C15_Witness ==
    \E n \in 1..MaxSubmits :
        /\ tasks[n].pc = "userSave"
        /\ tasks[n].userMessage = <<"Y", "e", "s">>

(***************************************************************************)
(* Properties of classification and dispatch                               *)
(***************************************************************************)
\* C16: with no confirmation pending, an input that matches a dictionary
\* phrase is stored as one record carrying the token index only, and
\* processing stops: no handler is dispatched, no bot reply is appended, and
\* PendingConfirmation and the busy flag are left as they were
C16_TokenStoredAndStop ==
    [][\A n \in 1..MaxSubmits :
          /\ (/\ Accepted(n)
              /\ ~awaitingConfirmation
              /\ lookupToken(trim(currentMessage), tokenDictionary) # Null)
             => /\ tasks'[n].pc = "tokenSave"
                /\ store' = store
                /\ isBotThinking' = isBotThinking
                /\ pendingAction' = pendingAction
          /\ (tasks[n].pc = "tokenSave" /\ ~tasks[n].awaiting /\ tasks'[n] # tasks[n])
             => /\ tasks'[n].pc = "done"
                /\ \/ store' = Append(store, [tokenIndex |-> tasks[n].tokenIndex,
                                              isTokenized |-> TRUE,
                                              userId |-> userId])
                   \/ store' = store /\ faults' = faults + 1
                /\ isBotThinking' = isBotThinking
                /\ pendingAction' = pendingAction]_vars

\* the only record is the user's token, and nothing is in flight
C16_Witness ==
    /\ Len(store) = 1
    /\ store[1].isTokenized
    /\ store[1].userId = userId
    /\ pendingAction = NullAction
    /\ ~isBotThinking
    /\ \E n \in 1..MaxSubmits : tasks[n].pc = "done"
    /\ \A n \in 1..MaxSubmits : tasks[n].pc \in {"idle", "done"}

\* C17: an input that is not a dictionary phrase, with nothing pending, is a
\* command when it begins with '/', else an intent when it contains
\* 'archive' or 'weather' in any letter case, else chat
C17_ClassifyFirstMatch ==
    [][\A n \in 1..MaxSubmits :
          (/\ Accepted(n)
           /\ ~awaitingConfirmation
           /\ lookupToken(trim(currentMessage), tokenDictionary) = Null)
          => LET s == trim(currentMessage)
                 L == toLowerCase(s)
                 has(w) == \E i, j \in 1..Len(L) : SubSeq(L, i, j) = w
             IN  /\ tasks'[n].pc = "userSave"
                 /\ tasks'[n].userRequestType =
                       IF Head(s) = "/" THEN "command"
                       ELSE IF has(<<"a", "r", "c", "h", "i", "v", "e">>) \/ has(<<"w", "e", "a", "t", "h", "e", "r">>) THEN "intent"
                       ELSE "chat"]_vars

\* a command that contains 'archive' was classified as a command
C17_Witness ==
    \E n \in 1..MaxSubmits :
        /\ tasks[n].pc = "userSave"
        /\ tasks[n].userMessage = <<"/", "f", "o", "o", " ", "a", "r", "c", "h", "i", "v", "e">>
        /\ tasks[n].userRequestType = "command"

Unhandled == TextRes(<<"Agent Q: I am unsure how to handle your request.">>)

\* C18: every built-in command in its documented form is dispatched as a
\* command and answered by its own handler, not stored as a token and not
\* answered by the reply for unhandled requests
C18_BuiltinsDispatched ==
    [][\A n \in 1..MaxSubmits :
          /\ (/\ Accepted(n)
              /\ ~awaitingConfirmation
              /\ trim(currentMessage) \in BuiltinForms)
             => /\ tasks'[n].pc = "userSave"
                /\ tasks'[n].userRequestType = "command"
          /\ (/\ tasks[n].pc = "timer"
              /\ tasks'[n].pc = "reply"
              /\ tasks[n].userMessage \in BuiltinForms)
             => tasks'[n].res # Unhandled]_vars

\* C19: a '/' input whose verb is not a built-in command is answered as the
\* chat fallback answers that text
C19_UnknownVerbFallsToChat ==
    [][\A n \in 1..MaxSubmits :
          (/\ tasks[n].pc = "timer"
           /\ tasks'[n].pc = "reply"
           /\ tasks[n].userMessage \in UnknownVerbs)
          => tasks'[n].res = chatReply(tasks[n].userMessage,
                                       toLowerCase(tasks[n].userMessage))]_vars

\* C20: /remindme <N><m|h> "<message>" creates exactly one record, due at
\* now + N * 60000 when the unit letter is m or M and at now + N * 3600000
\* when it is h or H (or none, when the store refuses the new record)
C20_RemindmeDueTime ==
    [][\A n \in 1..MaxSubmits :
          (/\ tasks[n].pc = "timer"
           /\ tasks'[n].pc = "reply"
           /\ startsWith(toLowerCase(tasks[n].userMessage), <<"/", "r", "e", "m", "i", "n", "d", "m", "e", " ">>)
           /\ remindMatch(tasks[n].userMessage) # <<>>)
          => LET m == remindMatch(tasks[n].userMessage)[1]
                 due == now + parseInt(m.value)
                              * (IF toLowerCase(m.unit) = <<"m">>
                                 THEN MinuteMs ELSE 60 * MinuteMs)
             IN  \/ reminders' = reminders \cup
                        {[id |-> nextDocId, remindAt |-> due, message |-> m.msg]}
                 \/ /\ reminders' = reminders
                    /\ tasks'[n].res = TextRes(<<"Agent Q: Error setting reminder.">>)]_vars

Usage == TextRes(<<"Agent Q: Usage: /remindme 10m \"your message\"">>)

\* C21: a /remindme command with malformed arguments is answered by the
\* usage message and the reminder collection is left as it was
C21_MalformedRemindme ==
    [][\A n \in 1..MaxSubmits :
          (/\ tasks[n].pc = "timer"
           /\ tasks'[n].pc = "reply"
           /\ tasks[n].userMessage \in MalformedReminders)
          => /\ tasks'[n].res = Usage
             /\ reminders' = reminders
             /\ nextDocId' = nextDocId]_vars

\* a /remindme with a unit other than m or h was answered, no record exists
C21_Witness ==
    \E n \in 1..MaxSubmits :
        /\ tasks[n].pc = "reply"
        /\ tasks[n].userMessage = <<"/", "r", "e", "m", "i", "n", "d", "m", "e", " ", "5", "d", " ", "\"", "a", "\"">>
        /\ tasks[n].res = Usage
        /\ reminders = {}

(***************************************************************************)
(* Properties of the session                                               *)
(***************************************************************************)
\* 0 Unauthenticated, 1 Authenticating, 2 HandshakeInProgress, 3 Ready
phase ==
    IF isAuthReady /\ isSecure THEN 3
    ELSE IF isAuthReady THEN 2
    ELSE IF dbInstance THEN 1
    ELSE 0

\* C22: the phase never goes back and skips no phase; the auth-ready flag
\* and the secure flag stay true once true; the session becomes Ready only
\* by the last announcement of the handshake, after all the others
C22_PhaseMonotone ==
    [][/\ phase' \in {phase, phase + 1}
       /\ isAuthReady => isAuthReady'
       /\ isSecure => isSecure'
       /\ (~isSecure /\ isSecure')
          => /\ isAuthReady
             /\ hsTimers = <<Len(handshakeSteps)>>
             /\ hsTimers' = <<>>
             /\ qkdStatus = handshakeSteps[Len(handshakeSteps) - 1]
             /\ qkdStatus' = handshakeSteps[Len(handshakeSteps)]]_vars

\* the session is Ready and a submission has been dispatched since
C22_Witness ==
    /\ phase = 3
    /\ qkdStatus = handshakeSteps[Len(handshakeSteps)]
    /\ \E n \in 1..MaxSubmits : tasks[n].pc = "done"

\* C30: whenever the session is Ready the user identity is set
C30_ReadyHasIdentity == Ready => userId # NoUser

(***************************************************************************)
(* Properties of the confirmation follow-up                                *)
(***************************************************************************)
Reprompt == <<"Agent Q: Please respond \"yes\" or \"no\".">>

Confirmations == {<<"y", "e", "s">>, <<"y">>}

Rejections == {<<"n", "o">>, <<"n">>}

\* C25: a follow-up that is 'yes' or 'y' in any letter case is answered by
\* the archive-saved reply, 'no' or 'n' by the archive-not-saved reply, any
\* other text by the re-prompt; one bot reply is appended, at the end of the
\* follow-up (none when the store refuses the write)
C25_FollowupInterpretation ==
    [][\A n \in 1..MaxSubmits :
          /\ (tasks[n].pc = "fuTimer" /\ tasks'[n] # tasks[n])
             => /\ tasks'[n].pc = "fuReply"
                /\ store' = store
          /\ (tasks[n].pc = "fuReply" /\ Finished(n))
             => LET q == toLowerCase(tasks[n].userMessage)
                IN  appendedOrFailed(IF q \in Confirmations THEN ArchiveSaved
                                     ELSE IF q \in Rejections THEN ArchiveRejected
                                     ELSE Reprompt)]_vars

\* 'YES' was taken as the confirmation
C25_Witness ==
    \E n \in 1..MaxSubmits :
        /\ tasks[n].pc = "fuReply"
        /\ tasks[n].userMessage = <<"Y", "E", "S">>
        /\ tasks[n].res.type = "action"
        /\ tasks[n].res.content.action = "ARCHIVE_SAVE"

\* C26: an archive-saved reply of the bot is appended only at the end of a
\* follow-up of 'yes' or 'y', and an input is taken as a follow-up only while
\* PendingConfirmation is ARCHIVE_CONFIRM; the reply to /archive is the
\* prompt and sets PendingConfirmation; PendingConfirmation holds nothing
\* but ARCHIVE_CONFIRM
C26_ArchiveOnlyOnConfirmation ==
    [][/\ (/\ Len(store') = Len(store) + 1
           /\ store'[Len(store')] = botMessage(ArchiveSaved))
          => \E n \in 1..MaxSubmits :
                /\ tasks[n].pc = "fuReply"
                /\ Finished(n)
                /\ toLowerCase(tasks[n].userMessage) \in Confirmations
       /\ \A n \in 1..MaxSubmits :
             /\ (Accepted(n) /\ tasks'[n].pc = "fuTimer") => awaitingConfirmation
             /\ (/\ tasks[n].pc = "reply"
                 /\ Finished(n)
                 /\ startsWith(toLowerCase(tasks[n].userMessage), <<"/", "a", "r", "c", "h", "i", "v", "e">>)
                 /\ tasks[n].userRequestType = "command")
                => /\ appendedOrFailed(ArchivePrompt)
                   /\ pendingAction' = ArchiveConfirm
       /\ pendingAction' \in {NullAction, ArchiveConfirm}]_vars

\* the archive-saved reply is in the store and nothing is pending
C26_Witness ==
    /\ pendingAction = NullAction
    /\ \E k \in 1..Len(store) : store[k] = botMessage(ArchiveSaved)
    /\ \E k \in 1..Len(store) : store[k] = botMessage(ArchivePrompt)

(***************************************************************************)
(* Properties of the reminder scheduler, continued                         *)
(***************************************************************************)
\* C27: a record is deleted only after its id was put into the fired-id set
\* and its reminder utterance was handed to the store under the bot
\* identity; the utterance is emitted in the step that puts the id into the
\* set, for a record that still exists; the set only grows, so a purged
\* record is never delivered again
C27_RecordLifecycle ==
    [][/\ \A d \in reminders \ reminders' :
             /\ d.id \in firedReminderIds
             /\ emitted[d.id] = 1
             /\ \E c \in callbacks : c.id = d.id /\ c.pc = "delete"
       /\ \A id \in 1..Len(emitted) :
             emitted'[id] > emitted[id]
             => /\ id \notin firedReminderIds
                /\ id \in firedReminderIds'
                /\ \E d \in reminders : d.id = id
       /\ \A c \in callbacks :
             (c.pc = "save" /\ c \notin callbacks' /\ store' # store)
             => store'[Len(store')].userId = botUserId
       /\ firedReminderIds \subseteq firedReminderIds']_vars

\* a record was delivered and then purged
C27_Witness ==
    \E id \in DocIds :
        /\ id \in firedReminderIds
        /\ appended[id] = 1
        /\ ~\E d \in reminders : d.id = id

\* C28: the batch of a tick holds at most 10 records, the ones that are due
\* earliest; the tick delivers records of its batch only, and none that is
\* due later than the tick's reading of the clock
C28_BatchOfTen ==
    [][\A p \in 1..Len(polls) :
          /\ (polls[p].pc = "query" /\ polls'[p].pc = "fetched")
             => LET snap == polls'[p].snap
                IN  /\ snap \subseteq reminders
                    /\ Cardinality(snap) <= BatchLimit
                    /\ Cardinality(snap) = BatchLimit \/ snap = reminders
                    /\ \A d \in snap : \A e \in reminders \ snap :
                          d.remindAt <= e.remindAt
          /\ (polls[p].pc = "fetched" /\ polls'[p].pc = "done")
             => /\ Cardinality(callbacks' \ callbacks) <= BatchLimit
                /\ \A c \in callbacks' \ callbacks :
                      \E d \in polls[p].snap : d.id = c.id /\ d.remindAt <= now]_vars

\* a tick over a backlog larger than one batch has delivered the record
\* that is due first
C28_Witness ==
    \E p \in 1..Len(polls) :
        /\ polls[p].pc = "done"
        /\ Cardinality(polls[p].snap) = BatchLimit
        /\ Cardinality(reminders) > BatchLimit
        /\ emitted[BacklogSize] = 1

\* C29: a tick whose query fails sets the polling error and touches nothing
\* else of the scheduler; the timer goes on to start the next tick, and a
\* later tick whose query is answered delivers the records of its batch
\* that are due
C29_PollFailureRecoverable ==
    /\ [][\A p \in 1..Len(polls) :
             (polls[p].pc = "query" /\ polls'[p].pc = "failed")
             => /\ error' = "Agent Q: Error polling reminders."
                /\ reminders' = reminders
                /\ firedReminderIds' = firedReminderIds
                /\ callbacks' = callbacks
                /\ dbInstance' /\ userId' # NoUser
                /\ \A q \in 1..Len(polls) : q # p => polls'[q] = polls[q]]_vars
    /\ \A p \in 1..(MaxPolls - 1) :
          (Len(polls) = p /\ polls[p].pc = "failed") ~> (Len(polls) > p)
    /\ \A p1, p2 \in 1..MaxPolls : \A id \in 1..MaxReminders :
          (/\ p1 < p2 /\ p2 <= Len(polls)
           /\ polls[p1].pc = "failed"
           /\ polls[p2].pc = "fetched"
           /\ \E d \in polls[p2].snap : d.id = id /\ d.remindAt <= now)
          ~> (id <= Len(emitted) /\ emitted[id] >= 1)

\* the first tick failed, the second one delivered a due record
C29_Witness ==
    \E p1, p2 \in 1..Len(polls) :
        /\ p1 < p2
        /\ polls[p1].pc = "failed"
        /\ polls[p2].pc = "done"
        /\ \E d \in polls[p2].snap :
              d.remindAt <= polls[p2].now /\ emitted[d.id] = 1

\* C36: a reminder record is deleted only if its reminder utterance was
\* appended to the message store; when the append fails the record is kept
C36_DeletedOnlyIfShown ==
    \A id \in DocIds :
        (~\E d \in reminders : d.id = id) => appended[id] >= 1

\* C37: a delivered record whose delete failed (it is still stored, and no
\* callback is working on it) gets its delete retried by the next poll tick
\* that finds it in its batch
C37_DeleteRetried ==
    [][\A p \in 1..Len(polls) :
          (/\ polls[p].pc = "fetched"
           /\ Len(polls') = Len(polls)
           /\ polls'[p].pc = "done")
          => \A d \in polls[p].snap \cap reminders :
                (/\ appended[d.id] >= 1
                 /\ ~\E c \in callbacks : c.id = d.id)
                => \E c \in callbacks' : c.id = d.id /\ c.pc = "delete"]_vars

\* C32: at-most-once delivery holds within each instance by its own
\* fired-id set and does not extend across instances: two instances polling
\* the same reminder store can each deliver the same record, and that is all
\* they can do
C32_AtMostOncePerInstance ==
    \A id \in DocIds :
        /\ emitted[id] <= 1
        /\ peerEmitted[id] <= 1
        /\ appended[id] <= emitted[id] + peerEmitted[id]

\* C32 witness: the same record has been delivered twice, once by each
\* instance
C32_Witness ==
    \E id \in DocIds :
        /\ emitted[id] = 1
        /\ peerEmitted[id] = 1
        /\ appended[id] = 2

(***************************************************************************)
(* Properties of the stored utterances and of the busy flag                *)
(***************************************************************************)
\* C33: every utterance the program persists carries exactly one of a token
\* index or free text; a token index is persisted only for an input the
\* codec matched, is a position of the dictionary, and does not decode to
\* the sentinel error text
C33_TokenXorText ==
    [][(Len(store') = Len(store) + 1 /\ store'[Len(store')].userId # OtherUser)
       => LET d == store'[Len(store')]
          IN  /\ ("tokenIndex" \in DOMAIN d) # ("text" \in DOMAIN d)
              /\ d.isTokenized = ("tokenIndex" \in DOMAIN d)
              /\ "tokenIndex" \in DOMAIN d =>
                    /\ d.userId = userId
                    /\ d.tokenIndex \in 0..(Len(tokenDictionary) - 1)
                    /\ \E n \in 1..MaxSubmits :
                          /\ tasks[n].pc = "tokenSave"
                          /\ tasks'[n].pc = "done"
                          /\ toLowerCase(tasks[n].userMessage)
                                = toLowerCase(tokenDictionary[d.tokenIndex + 1])
                    /\ decodeDoc(d).text # Sentinel(d.tokenIndex)
                    /\ decodeDoc(d).text = tokenDictionary[d.tokenIndex + 1]]_vars

\* C33 witness: the store holds a free-text utterance and a token utterance
\* of the user
C33_Witness ==
    \E j, k \in 1..Len(store) :
        /\ store[j].userId = userId /\ ~store[j].isTokenized
        /\ "text" \in DOMAIN store[j]
        /\ store[k].userId = userId /\ store[k].isTokenized
        /\ "tokenIndex" \in DOMAIN store[k]

\* C34: the busy flag is set only while a dispatch is still going to clear
\* it: whenever isBotThinking is true some continuation is waiting for its
\* timer or its reply, also after a handler or a store write has thrown
C34_BusyFlagCleared ==
    isBotThinking =>
        \E n \in 1..MaxSubmits :
            tasks[n].pc \in {"timer", "reply", "fuTimer", "fuReply"}

\* C35: when the handling of an accepted submission ends (no store write
\* having failed), the store holds one utterance of the user for each
\* submission whose utterance was due: every one that has ended and every
\* one that is waiting for its timer or its reply
C35_UserUtteranceStored ==
    [][\A n \in 1..MaxSubmits :
          (Finished(n) /\ faults' = 0)
          => Cardinality({k \in 1..Len(store') : store'[k].userId = userId})
               = Cardinality({m \in 1..MaxSubmits :
                                 tasks'[m].pc \in {"timer", "reply", "done"}})]_vars

(***************************************************************************)
(* Properties of the voice output                                          *)
(***************************************************************************)
\* getUint16 and getUint32 with littleEndian = true
le16(w, offset) == w[offset + 1] + 256 * w[offset + 2]

le32(w, offset) ==
    w[offset + 1] + 256 * w[offset + 2] + 65536 * w[offset + 3]
        + 16777216 * w[offset + 4]

\* C23: the output of pcmToWav for a buffer of dataSize bytes and sample
\* rate r is 44 + dataSize bytes long, its little-endian header fields are
\* riffChunkSize = 36 + dataSize, byteRate = r * 2, blockAlign = 2 and
\* dataSize, and the samples follow verbatim; for the empty buffer at
\* r = 16000 the output is 44 bytes with dataSize 0 and riffChunkSize 36.
C23_WavLayout ==
    ttsWav.kind = "wav" =>
        LET w == ttsWav.blob.bytes
            n == Len(ttsWav.pcm)
            r == ttsWav.sampleRate
        IN  /\ Len(w) = 44 + n
            /\ le32(w, 4) = 36 + n
            /\ le32(w, 28) = r * 2
            /\ le16(w, 32) = 2
            /\ le32(w, 40) = n
            /\ SubSeq(w, 45, 44 + n) = ttsWav.pcm
            /\ (n = 0 /\ r = 16000 =>
                    Len(w) = 44 /\ le32(w, 40) = 0 /\ le32(w, 4) = 36)

\* C23 witness: pcmToWav has converted the empty buffer at 16000 Hz
C23_Witness ==
    /\ ttsPc = "converted"
    /\ ttsWav.kind = "wav"
    /\ ttsWav.pcm = <<>>
    /\ ttsWav.sampleRate = 16000
    /\ Len(ttsWav.blob.bytes) = 44

\* an absent buffer, or a byte length that is not a whole number of 16-bit
\* samples
Malformed(part) ==
    \/ part.data.kind = "absent"
    \/ part.data.kind = "base64" /\ Len(part.data.bytes) % 2 = 1

DecodeEnded == ttsPc \in {"played", "invalid", "threw", "convertThrew"}

\* C24: given a malformed PCM payload, the audio decode path still emits a
\* structurally valid 44-byte header with dataSize = 0 and does not end in
\* a thrown error.
C24_MalformedGivesEmptyClip ==
    (DecodeEnded /\ Malformed(ttsPart)) =>
        /\ ttsWav.kind = "wav"
        /\ Len(ttsWav.blob.bytes) = 44
        /\ le32(ttsWav.blob.bytes, 40) = 0
        /\ ttsPc \notin {"threw", "convertThrew"}

====
